---- MODULE Spec2Model ----
(***************************************************************************)
(* Model of the editor minimap (vs/editor/browser/viewParts/minimap):      *)
(* MinimapOptions, MinimapLayout, MinimapBuffers, RenderData and the       *)
(* Minimap view part with its view event handlers and its render pass.     *)
(***************************************************************************)
EXTENDS Integers, Sequences, FiniteSets, TLC

(***************************************************************************)
(* JavaScript numbers.  A number is a pair <<n, d>> with d >= 0: the       *)
(* rational n/d in lowest terms when d > 0, +Infinity = <<1, 0>>,          *)
(* -Infinity = <<-1, 0>> and NaN = <<0, 0>>.  Finite values are exact      *)
(* rationals (no rounding of the binary floating point is modelled).       *)
(***************************************************************************)
Sign(n) == IF n > 0 THEN 1 ELSE IF n < 0 THEN -1 ELSE 0

AbsInt(n) == IF n < 0 THEN -n ELSE n

RECURSIVE GCD(_, _)
GCD(a, b) == IF b = 0 THEN a ELSE GCD(b, a % b)

NaN == <<0, 0>>

PosInf == <<1, 0>>

NegInf == <<-1, 0>>

Num(n) == <<n, 1>>

Norm(n, d) ==
  IF d = 0 THEN <<Sign(n), 0>>
  ELSE LET g == GCD(AbsInt(n), d) IN <<n \div g, d \div g>>

IsNaN(a) == a = NaN

IsFinite(a) == a[2] > 0

IsInt(a) == a[2] = 1

Neg(a) == <<-a[1], a[2]>>

Add(a, b) ==
  IF IsNaN(a) \/ IsNaN(b) THEN NaN
  ELSE IF a[2] = 0 /\ b[2] = 0 THEN (IF a = b THEN a ELSE NaN)
  ELSE IF a[2] = 0 THEN a
  ELSE IF b[2] = 0 THEN b
  ELSE Norm(a[1] * b[2] + b[1] * a[2], a[2] * b[2])

Sub(a, b) == Add(a, Neg(b))

Mul(a, b) ==
  IF IsNaN(a) \/ IsNaN(b) THEN NaN
  ELSE Norm(a[1] * b[1], a[2] * b[2])

\* 1/b; the zero of the model is +0, so 1/0 is +Infinity
Recip(b) ==
  IF IsNaN(b) THEN NaN
  ELSE IF b[1] > 0 THEN <<b[2], b[1]>>
  ELSE IF b[1] < 0 THEN <<-b[2], -b[1]>>
  ELSE PosInf

Div(a, b) == Mul(a, Recip(b))

\* a < b (false when either is NaN)
Less(a, b) ==
  /\ ~IsNaN(a)
  /\ ~IsNaN(b)
  /\ a # b
  /\ IF a[2] = 0 THEN a[1] < 0
     ELSE IF b[2] = 0 THEN b[1] > 0
     ELSE a[1] * b[2] < b[1] * a[2]

Leq(a, b) == ~IsNaN(a) /\ ~IsNaN(b) /\ (a = b \/ Less(a, b))

MathMin(a, b) ==
  IF IsNaN(a) \/ IsNaN(b) THEN NaN ELSE IF Less(b, a) THEN b ELSE a

MathMax(a, b) ==
  IF IsNaN(a) \/ IsNaN(b) THEN NaN ELSE IF Less(a, b) THEN b ELSE a

MathFloor(a) == IF IsFinite(a) THEN <<a[1] \div a[2], 1>> ELSE a

\* Math.round: floor(a + 1/2)
MathRound(a) == IF IsFinite(a) THEN MathFloor(Add(a, <<1, 2>>)) ELSE a

(***************************************************************************)
(* RenderMinimap and the glyph cell sizes                                  *)
(***************************************************************************)
RenderMinimap_None == 0

RenderMinimap_Small == 1

RenderMinimap_Large == 2

RenderMinimap_SmallBlocks == 3

RenderMinimap_LargeBlocks == 4

x2_CHAR_HEIGHT == 4

x2_CHAR_WIDTH == 2

x1_CHAR_HEIGHT == 2

x1_CHAR_WIDTH == 1

\* SmallBlocks no taller than Small
getMinimapLineHeight_flat(renderMinimap) ==
  IF renderMinimap = RenderMinimap_Large THEN x2_CHAR_HEIGHT
  ELSE IF renderMinimap = RenderMinimap_LargeBlocks THEN x2_CHAR_HEIGHT + 2
  ELSE x1_CHAR_HEIGHT

getMinimapLineHeight(renderMinimap) ==
  IF renderMinimap = RenderMinimap_Large THEN x2_CHAR_HEIGHT
  ELSE IF renderMinimap = RenderMinimap_LargeBlocks THEN x2_CHAR_HEIGHT + 2
  ELSE IF renderMinimap = RenderMinimap_Small THEN x1_CHAR_HEIGHT
  ELSE x1_CHAR_HEIGHT + 1

getMinimapCharWidth(renderMinimap) ==
  IF renderMinimap = RenderMinimap_Large THEN x2_CHAR_WIDTH
  ELSE IF renderMinimap = RenderMinimap_LargeBlocks THEN x2_CHAR_WIDTH
  ELSE IF renderMinimap = RenderMinimap_Small THEN x1_CHAR_WIDTH
  ELSE x1_CHAR_WIDTH

(***************************************************************************)
(* MinimapOptions: built from a configuration snapshot                     *)
(*   [renderMinimap, showSlider, pixelRatio, lineHeight, minimapWidth,     *)
(*    height]; pixelRatio is a number <<n, d>>, the rest are integers.     *)
(***************************************************************************)
MinimapOptions(configuration) ==
  LET pixelRatio == configuration.pixelRatio
      canvasInnerWidth == MathFloor(Mul(pixelRatio, Num(configuration.minimapWidth)))
      canvasInnerHeight == MathFloor(Mul(pixelRatio, Num(configuration.height)))
  IN [renderMinimap |-> configuration.renderMinimap,
      showSlider |-> configuration.showSlider,
      pixelRatio |-> pixelRatio,
      lineHeight |-> configuration.lineHeight,
      minimapWidth |-> configuration.minimapWidth,
      minimapHeight |-> configuration.height,
      canvasInnerWidth |-> canvasInnerWidth[1],
      canvasInnerHeight |-> canvasInnerHeight[1],
      canvasOuterWidth |-> Div(canvasInnerWidth, pixelRatio),
      canvasOuterHeight |-> Div(canvasInnerHeight, pixelRatio)]

\* an equality that does not look at canvasOuterHeight
MinimapOptions_equals_short(this, other) ==
  /\ this.renderMinimap = other.renderMinimap
  /\ this.showSlider = other.showSlider
  /\ this.pixelRatio = other.pixelRatio
  /\ this.lineHeight = other.lineHeight
  /\ this.minimapWidth = other.minimapWidth
  /\ this.minimapHeight = other.minimapHeight
  /\ this.canvasInnerWidth = other.canvasInnerWidth
  /\ this.canvasInnerHeight = other.canvasInnerHeight
  /\ this.canvasOuterWidth = other.canvasOuterWidth

MinimapOptions_equals(this, other) ==
  /\ this.renderMinimap = other.renderMinimap
  /\ this.showSlider = other.showSlider
  /\ this.pixelRatio = other.pixelRatio
  /\ this.lineHeight = other.lineHeight
  /\ this.minimapWidth = other.minimapWidth
  /\ this.minimapHeight = other.minimapHeight
  /\ this.canvasInnerWidth = other.canvasInnerWidth
  /\ this.canvasInnerHeight = other.canvasInnerHeight
  /\ this.canvasOuterWidth = other.canvasOuterWidth
  /\ this.canvasOuterHeight = other.canvasOuterHeight

(***************************************************************************)
(* MinimapLayout.create.  The argument a is the record of its parameters   *)
(*   [options, viewportStartLineNumber, viewportEndLineNumber,             *)
(*    viewportHeight, viewportContainsWhitespaceGaps, lineCount,           *)
(*    scrollTop, scrollHeight]                                             *)
(* (scrollbarSliderCenter is not read by the function).                    *)
(***************************************************************************)
create_minimapLinesFitting(options) ==
  options.canvasInnerHeight \div getMinimapLineHeight(options.renderMinimap)

\* the visible line count taken whenever there are gaps
create_sliderHeight_gaps(a) ==
  LET minimapLineHeight == Num(getMinimapLineHeight(a.options.renderMinimap))
      viewportLineCount == a.viewportEndLineNumber - a.viewportStartLineNumber + 1
  IN IF a.viewportContainsWhitespaceGaps
     THEN MathFloor(Div(Mul(Num(viewportLineCount), minimapLineHeight),
                        a.options.pixelRatio))
     ELSE MathFloor(Div(Mul(Div(Num(a.viewportHeight), Num(a.options.lineHeight)),
                            minimapLineHeight),
                        a.options.pixelRatio))

create_sliderHeight(a) ==
  LET minimapLineHeight == Num(getMinimapLineHeight(a.options.renderMinimap))
      pixelRatio == a.options.pixelRatio
  IN IF a.viewportContainsWhitespaceGaps /\ a.viewportEndLineNumber # a.lineCount
     THEN LET viewportLineCount ==
                a.viewportEndLineNumber - a.viewportStartLineNumber + 1
          IN MathFloor(Div(Mul(Num(viewportLineCount), minimapLineHeight), pixelRatio))
     ELSE LET expectedViewportLineCount ==
                Div(Num(a.viewportHeight), Num(a.options.lineHeight))
          IN MathFloor(Div(Mul(expectedViewportLineCount, minimapLineHeight), pixelRatio))

create_maxMinimapSliderTop(a) ==
  LET minimapLineHeight == Num(getMinimapLineHeight(a.options.renderMinimap))
  IN MathMin(Sub(Num(a.options.minimapHeight), create_sliderHeight(a)),
             Div(Mul(Num(a.lineCount - 1), minimapLineHeight), a.options.pixelRatio))

create_computedSliderRatio(a) ==
  Div(create_maxMinimapSliderTop(a), Num(a.scrollHeight - a.viewportHeight))

create_sliderTop(a) == Mul(Num(a.scrollTop), create_computedSliderRatio(a))

\* lines that exactly fill the minimap taken as not fitting
create_allLinesFit_strict(a) == create_minimapLinesFitting(a.options) > a.lineCount

create_allLinesFit(a) == create_minimapLinesFitting(a.options) >= a.lineCount

\* the first line back-computed without the minimum of 1
create_startLineNumber_unclamped(a) ==
  IF create_allLinesFit(a) THEN Num(1)
  ELSE LET minimapLineHeight == Num(getMinimapLineHeight(a.options.renderMinimap))
       IN MathFloor(Sub(Num(a.viewportStartLineNumber),
                        Div(Mul(create_sliderTop(a), a.options.pixelRatio),
                            minimapLineHeight)))

create_startLineNumber(a) ==
  IF create_allLinesFit(a) THEN Num(1)
  ELSE LET minimapLineHeight == Num(getMinimapLineHeight(a.options.renderMinimap))
       IN MathMax(Num(1),
                  MathFloor(Sub(Num(a.viewportStartLineNumber),
                                Div(Mul(create_sliderTop(a), a.options.pixelRatio),
                                    minimapLineHeight))))

\* the end of the range counted one row past the rows that fit
create_endLineNumber_past(a) ==
  IF create_allLinesFit(a) THEN Num(a.lineCount)
  ELSE MathMin(Num(a.lineCount),
               Add(create_startLineNumber(a),
                   Num(create_minimapLinesFitting(a.options))))

create_endLineNumber(a) ==
  IF create_allLinesFit(a) THEN Num(a.lineCount)
  ELSE MathMin(Num(a.lineCount),
               Sub(Add(create_startLineNumber(a),
                       Num(create_minimapLinesFitting(a.options))),
                   Num(1)))

MinimapLayout_create(a) ==
  [scrollTop |-> a.scrollTop,
   computedSliderRatio |-> create_computedSliderRatio(a),
   sliderTop |-> create_sliderTop(a),
   sliderHeight |-> create_sliderHeight(a),
   startLineNumber |-> create_startLineNumber(a),
   endLineNumber |-> create_endLineNumber(a)]

getDesiredScrollTopFromDelta(layout, delta) ==
  LET desiredSliderPosition == Add(layout.sliderTop, delta)
  IN MathRound(Div(desiredSliderPosition, layout.computedSliderRatio))


(***************************************************************************)
(* State                                                                   *)
(***************************************************************************)
VARIABLES
  configuration,    \* the editor configuration the view part reads
  theme,            \* the color map behind MinimapTokensColorTracker
  model,            \* the view model's lines: a sequence of [content, tokens]
  _options,         \* Minimap._options
  _lastRenderData,  \* Minimap._lastRenderData: <<>> (null) or <<RenderData>>
  _buffers,         \* Minimap._buffers: <<>> (null) or <<MinimapBuffers>>
  heap,             \* the ImageData objects, by reference
  events,           \* summary of the view events since the last render pass
  frame,            \* what the last step did, when it was a render pass
  steps,            \* the number of steps taken so far
  lin,              \* arguments of a call of a function on its own
  lout,             \* its results: <<>> before the call
  drag,             \* the slider's mouse move monitor: <<>> or what it captured
  sliderActive,     \* whether the slider has the class 'active'
  isWindows,        \* platform.isWindows
  out,              \* the last mouse event and what its listener requested
  calls             \* the getBuffer() calls on a buffer manager on its own

vars ==
  <<configuration, theme, model, _options, _lastRenderData, _buffers, heap,
    events, frame, steps, lin, lout, drag, sliderActive, isWindows, out, calls>>

mouseVars == <<drag, sliderActive, isWindows, out>>

minimapVars ==
  <<configuration, theme, model, _options, _lastRenderData, _buffers, heap,
    events, frame, steps>>

Null == <<>>

Range0(n) == 0 .. (n - 1)

SetMin(S) == CHOOSE x \in S : \A y \in S : x <= y
SetMax(S) == CHOOSE x \in S : \A y \in S : x >= y

Min2(a, b) == IF a < b THEN a ELSE b

Max2(a, b) == IF a > b THEN a ELSE b

(***************************************************************************)
(* Colors: MinimapTokensColorTracker.getColor(colorId) under a color map.  *)
(***************************************************************************)
ColorId_DefaultForeground == 1

ColorId_DefaultBackground == 2

getColor(colorMap, colorId) ==
  IF colorId = ColorId_DefaultBackground
  THEN (IF colorMap = 0 THEN [r |-> 30, g |-> 30, b |-> 30]
                        ELSE [r |-> 255, g |-> 255, b |-> 255])
  ELSE [r |-> 100 + 10 * colorId + colorMap,
        g |-> 60 + 10 * colorId + colorMap,
        b |-> 20 + 10 * colorId + colorMap]

(***************************************************************************)
(* ImageData and MinimapBuffers                                            *)
(***************************************************************************)
createImageData(WIDTH, HEIGHT) ==
  [width |-> WIDTH, height |-> HEIGHT,
   data |-> [i \in Range0(WIDTH * HEIGHT * 4) |-> 0]]

_createBackgroundFillData(WIDTH, HEIGHT, background) ==
  [offset \in Range0(WIDTH * HEIGHT * 4) |->
     IF offset % 4 = 0 THEN background.r
     ELSE IF offset % 4 = 1 THEN background.g
     ELSE IF offset % 4 = 2 THEN background.b
     ELSE 255]

\* TypedArray.prototype.subarray(begin, end): both ends clamped to the array
subarray(data, begin, end) ==
  LET len == Cardinality(DOMAIN data)
      b == Max2(0, Min2(begin, len))
      e == Max2(b, Min2(end, len))
  IN [i \in Range0(e - b) |-> data[b + i]]

\* TypedArray.prototype.set(source, offset) throws a RangeError when the
\* source does not fit
set_fits(data, source, offset) ==
  offset >= 0 /\ offset + Cardinality(DOMAIN source) <= Cardinality(DOMAIN data)

set(data, source, offset) ==
  [i \in DOMAIN data |->
     IF i >= offset /\ i < offset + Cardinality(DOMAIN source)
     THEN source[i - offset] ELSE data[i]]


\* new MinimapBuffers(ctx, WIDTH, HEIGHT, background); id0 and id1 are the
\* references of the two ImageData objects it creates
MinimapBuffers(id0, id1, WIDTH, HEIGHT, background) ==
  [_backgroundFillData |-> _createBackgroundFillData(WIDTH, HEIGHT, background),
   _buffers |-> <<id0, id1>>,
   _lastUsedBuffer |-> 0]

\* a manager that does not rotate
getBuffer_rotate_stuck(this) == this

\* MinimapBuffers.getBuffer(): the manager after the call
getBuffer_rotate(this) ==
  [this EXCEPT !._lastUsedBuffer = 1 - this._lastUsedBuffer]

\* the buffer handed out the time before
getBuffer_result_previous(this) == this._buffers[this._lastUsedBuffer + 1]

\* MinimapBuffers.getBuffer(): the reference it returns
getBuffer_result(this) == this._buffers[getBuffer_rotate(this)._lastUsedBuffer + 1]

\* a buffer handed out as it was left
getBuffer_fill_none(this, h) == h

\* MinimapBuffers.getBuffer(): the heap after the call
getBuffer_fill(this, h) ==
  LET result == getBuffer_result(this)
  IN [h EXCEPT ![result] =
        <<[h[result][1] EXCEPT !.data = set(h[result][1].data, this._backgroundFillData, 0)]>>]

(***************************************************************************)
(* The glyph cell renderers of MinimapCharRenderer (x1RenderChar,          *)
(* x2RenderChar, x1BlockRenderChar, x2BlockRenderChar): one cell of        *)
(* charWidth x charHeight pixels at (dx, dy); the glyph variants depend on *)
(* the character and the color, the block variants on the color alone;     *)
(* the alpha channel is left as it is.                                     *)
(***************************************************************************)
CharCode_Tab == 9

CharCode_Space == 32

getMinimapCharHeight(renderMinimap) ==
  IF renderMinimap = RenderMinimap_Large \/ renderMinimap = RenderMinimap_LargeBlocks
  THEN x2_CHAR_HEIGHT ELSE x1_CHAR_HEIGHT

isBlocks(renderMinimap) ==
  renderMinimap = RenderMinimap_SmallBlocks \/ renderMinimap = RenderMinimap_LargeBlocks

inkByte(renderMinimap, charCode, c, bg, useLighterFont) ==
  IF isBlocks(renderMinimap)
  THEN (c + bg) \div 2
  ELSE (c + charCode + (IF useLighterFont THEN 1 ELSE 0)) % 256

\* the offsets of the color bytes of the cell, in the order they are written
RenderChar_offsets(WIDTH, dx, dy, cw, ch) ==
  {((y * WIDTH) + x) * 4 + k :
     x \in dx .. (Min2(dx + cw, WIDTH) - 1), y \in dy .. (dy + ch - 1), k \in 0 .. 2}

RECURSIVE RenderChar_write(_, _, _, _, _, _, _)
RenderChar_write(data, offsets, charCode, tokenColor, backgroundColor, useLighterFont, renderMinimap) ==
  IF offsets = {} THEN data
  ELSE LET offset == SetMin(offsets)
           k == offset % 4
           byte == inkByte(renderMinimap, charCode,
                           IF k = 0 THEN tokenColor.r ELSE IF k = 1 THEN tokenColor.g ELSE tokenColor.b,
                           IF k = 0 THEN backgroundColor.r ELSE IF k = 1 THEN backgroundColor.g ELSE backgroundColor.b,
                           useLighterFont)
       IN RenderChar_write(IF offset \in DOMAIN data
                           THEN [data EXCEPT ![offset] = byte] ELSE data,
                           offsets \ {offset}, charCode, tokenColor, backgroundColor,
                           useLighterFont, renderMinimap)

RenderChar(target, dx, dy, charCode, tokenColor, backgroundColor, useLighterFont, renderMinimap) ==
  [target EXCEPT !.data =
     RenderChar_write(target.data,
                      RenderChar_offsets(target.width, dx, dy,
                                         getMinimapCharWidth(renderMinimap),
                                         getMinimapCharHeight(renderMinimap)),
                      charCode, tokenColor, backgroundColor, useLighterFont,
                      renderMinimap)]

(***************************************************************************)
(* Minimap._renderLine.  st is the loop state                              *)
(*   [tokenIndex, charIndex, dx, tabsCharDelta, target, cells, hitEdge];   *)
(* cells lists the glyph cells drawn, as [dx, charIndex].                  *)
(***************************************************************************)
\* the last column taken as the buffer's width
_renderLine_maxDx_wide(target, charWidth) == target.width

\* the largest dx a cell may start at
_renderLine_maxDx(target, charWidth) == target.width - charWidth

\* a tab that forgets the tabs before it
_renderLine_insertSpacesCount_plain(tabSize, charIndex, tabsCharDelta) ==
  tabSize - (charIndex % tabSize)

\* the columns a tab at charIndex takes
_renderLine_insertSpacesCount(tabSize, charIndex, tabsCharDelta) ==
  tabSize - ((charIndex + tabsCharDelta) % tabSize)

RECURSIVE _renderLine_loop(_, _, _, _, _, _, _)
_renderLine_loop(st, backgroundColor, useLighterFont, renderMinimap, colorMap, tabSize, lineData) ==
  LET content == lineData.content
      tokens == lineData.tokens
      charWidth == getMinimapCharWidth(renderMinimap)
      maxDx == _renderLine_maxDx(st.target, charWidth)
  IN IF st.tokenIndex >= Len(tokens) THEN st
     ELSE LET token == tokens[st.tokenIndex + 1]
              tokenColor == getColor(colorMap, token.foreground)
          IN IF st.charIndex >= token.endIndex
             THEN _renderLine_loop([st EXCEPT !.tokenIndex = st.tokenIndex + 1],
                                   backgroundColor, useLighterFont, renderMinimap,
                                   colorMap, tabSize, lineData)
             ELSE IF st.dx > maxDx
             THEN [st EXCEPT !.hitEdge = TRUE]
             ELSE LET charCode == content[st.charIndex + 1]
                      next ==
                        IF charCode = CharCode_Tab
                        THEN LET insertSpacesCount ==
                                   _renderLine_insertSpacesCount(tabSize, st.charIndex,
                                                                 st.tabsCharDelta)
                             IN [st EXCEPT !.tabsCharDelta = st.tabsCharDelta + insertSpacesCount - 1,
                                           !.dx = st.dx + insertSpacesCount * charWidth]
                        ELSE IF charCode = CharCode_Space
                        THEN [st EXCEPT !.dx = st.dx + charWidth]
                        ELSE [st EXCEPT
                                !.target = RenderChar(st.target, st.dx, st.dy, charCode,
                                                      tokenColor, backgroundColor,
                                                      useLighterFont, renderMinimap),
                                !.cells = Append(st.cells, [dx |-> st.dx, charIndex |-> st.charIndex]),
                                !.dx = st.dx + charWidth]
                  IN _renderLine_loop([next EXCEPT !.charIndex = st.charIndex + 1],
                                      backgroundColor, useLighterFont, renderMinimap,
                                      colorMap, tabSize, lineData)

_renderLine(target, backgroundColor, useLighterFont, renderMinimap, colorMap, dy, tabSize, lineData) ==
  _renderLine_loop([tokenIndex |-> 0, charIndex |-> 0, dx |-> 0, dy |-> dy,
                    tabsCharDelta |-> 0, target |-> target, cells |-> <<>>,
                    hitEdge |-> FALSE],
                   backgroundColor, useLighterFont, renderMinimap, colorMap,
                   tabSize, lineData)

backgroundIsLight(colorMap) == getColor(colorMap, ColorId_DefaultBackground).r >= 128


(***************************************************************************)
(* RenderedLinesCollection<MinimapLine> (vs/editor/browser/view/viewLayer) *)
(* as RenderData uses it: the pair [rendLineNumberStart, lines], lines     *)
(* being the sequence of the records' dy, -1 for an invalid record.        *)
(***************************************************************************)
INVALID == -1

\* a record that survives the edit of its line
MinimapLine_onContentChanged_kept(dy) == dy

\* MinimapLine.onContentChanged(): the record's dy afterwards
MinimapLine_onContentChanged(dy) == -1

\* a record that stays valid
MinimapLine_onTokensChanged_kept(dy) == dy

\* MinimapLine.onTokensChanged(): the record's dy afterwards
MinimapLine_onTokensChanged(dy) == -1

RLC_getCount(c) == Len(c.lines)

RLC_getStartLineNumber(c) == c.rendLineNumberStart

RLC_getEndLineNumber(c) == c.rendLineNumberStart + Len(c.lines) - 1

\* lines[i] for the 0-based i in from..(to - 1)
Slice(lines, from, to) == [i \in 1 .. (to - from) |-> lines[from + i]]

RLC_onLinesChanged(c, changeFromLineNumber, changeToLineNumber) ==
  IF RLC_getCount(c) = 0 THEN c
  ELSE [c EXCEPT !.lines =
          [i \in 1 .. Len(c.lines) |->
             LET lineNumber == c.rendLineNumberStart + i - 1
             IN IF lineNumber >= changeFromLineNumber /\ lineNumber <= changeToLineNumber
                THEN MinimapLine_onContentChanged(c.lines[i]) ELSE c.lines[i]]]

RLC_onLinesDeleted(c, deleteFromLineNumber, deleteToLineNumber) ==
  LET startLineNumber == RLC_getStartLineNumber(c)
      endLineNumber == RLC_getEndLineNumber(c)
  IN IF RLC_getCount(c) = 0 THEN c
     ELSE IF deleteToLineNumber < startLineNumber
     THEN [c EXCEPT !.rendLineNumberStart =
             c.rendLineNumberStart - (deleteToLineNumber - deleteFromLineNumber + 1)]
     ELSE IF deleteFromLineNumber > endLineNumber THEN c
     ELSE LET deleteAboveCount ==
                IF deleteFromLineNumber < startLineNumber
                THEN startLineNumber - deleteFromLineNumber ELSE 0
          IN [rendLineNumberStart |-> c.rendLineNumberStart - deleteAboveCount,
              lines |->
                SelectSeq([i \in 1 .. Len(c.lines) |->
                             LET lineNumber == startLineNumber + i - 1
                             IN IF deleteFromLineNumber <= lineNumber
                                   /\ lineNumber <= deleteToLineNumber
                                THEN -2 ELSE c.lines[i]],
                          LAMBDA dy : dy # -2)]

RLC_onLinesInserted(c, insertFromLineNumber, insertToLineNumber) ==
  LET insertCnt == insertToLineNumber - insertFromLineNumber + 1
      startLineNumber == RLC_getStartLineNumber(c)
      endLineNumber == RLC_getEndLineNumber(c)
      insertIndex == insertFromLineNumber - c.rendLineNumberStart
  IN IF RLC_getCount(c) = 0 THEN c
     ELSE IF insertFromLineNumber <= startLineNumber
     THEN [c EXCEPT !.rendLineNumberStart = c.rendLineNumberStart + insertCnt]
     ELSE IF insertFromLineNumber > endLineNumber THEN c
     ELSE IF insertCnt + insertFromLineNumber > endLineNumber
     THEN [c EXCEPT !.lines = Slice(c.lines, 0, insertIndex)]
     ELSE [c EXCEPT !.lines =
             Slice(c.lines, 0, insertIndex)
             \o [i \in 1 .. insertCnt |-> INVALID]
             \o Slice(c.lines, insertIndex, Len(c.lines) - insertCnt)]

\* ranges is a sequence of [fromLineNumber, toLineNumber]
RLC_onTokensChanged(c, ranges) ==
  IF RLC_getCount(c) = 0 THEN c
  ELSE [c EXCEPT !.lines =
          [i \in 1 .. Len(c.lines) |->
             LET lineNumber == c.rendLineNumberStart + i - 1
             IN IF \E k \in 1 .. Len(ranges) :
                     /\ lineNumber >= ranges[k].fromLineNumber
                     /\ lineNumber <= ranges[k].toLineNumber
                THEN MinimapLine_onTokensChanged(c.lines[i]) ELSE c.lines[i]]]

(***************************************************************************)
(* RenderData                                                              *)
(***************************************************************************)
\* a frame whose records start at line 1
RenderData_fromFirst(renderedLayout, imageData, lines) ==
  [renderedLayout |-> renderedLayout,
   _imageData |-> imageData,
   _renderedLines |-> [rendLineNumberStart |-> 1, lines |-> lines]]

RenderData(renderedLayout, imageData, lines) ==
  [renderedLayout |-> renderedLayout,
   _imageData |-> imageData,
   _renderedLines |->
     [rendLineNumberStart |->
        IF IsFinite(renderedLayout.startLineNumber)
        THEN renderedLayout.startLineNumber[1] ELSE 1,
      lines |-> lines]]

RenderData_onLinesChanged(this, e) ==
  [this EXCEPT !._renderedLines =
     RLC_onLinesChanged(this._renderedLines, e.fromLineNumber, e.toLineNumber)]

RenderData_onLinesDeleted(this, e) ==
  [this EXCEPT !._renderedLines =
     RLC_onLinesDeleted(this._renderedLines, e.fromLineNumber, e.toLineNumber)]

RenderData_onLinesInserted(this, e) ==
  [this EXCEPT !._renderedLines =
     RLC_onLinesInserted(this._renderedLines, e.fromLineNumber, e.toLineNumber)]

RenderData_onTokensChanged(this, e) ==
  [this EXCEPT !._renderedLines = RLC_onTokensChanged(this._renderedLines, e.ranges)]


(***************************************************************************)
(* Minimap._renderUntouchedLines.  target and last are ImageData values,   *)
(* same tells whether they are one object; st is the loop state.  The      *)
(* result is [needed, targetData, copies, threw]: copies lists the         *)
(* targetData.set calls as [sourceStart, sourceEnd, destStart].            *)
(***************************************************************************)
flushCopy(st, lastData, same) ==
  LET lastTargetData == IF same THEN st.targetData ELSE lastData
      source == subarray(lastTargetData, st.copySourceStart, st.copySourceEnd)
      request == [sourceStart |-> st.copySourceStart,
                  sourceEnd |-> st.copySourceEnd,
                  destStart |-> st.copyDestStart]
  IN IF st.threw THEN st
     ELSE IF set_fits(st.targetData, source, st.copyDestStart)
     THEN [st EXCEPT !.targetData = set(st.targetData, source, st.copyDestStart),
                     !.copies = Append(st.copies, request)]
     ELSE [st EXCEPT !.threw = TRUE, !.copies = Append(st.copies, request)]

\* a row record looked up one line too far
untouched_lastLineIndex_off(lineNumber, lastStartLineNumber) ==
  lineNumber - lastStartLineNumber + 1

\* the index of a line's record in the previous frame's _renderedLines
untouched_lastLineIndex(lineNumber, lastStartLineNumber) ==
  lineNumber - lastStartLineNumber

\* a span extended whenever the source follows
untouched_contiguous_source(st, sourceStart, destStart) ==
  st.copySourceEnd = sourceStart

\* whether the row extends the pending copy request
untouched_contiguous(st, sourceStart, destStart) ==
  st.copySourceEnd = sourceStart /\ st.copyDestEnd = destStart

untouched_step(st, lineNumber, WIDTH, minimapLineHeight, lastStartLineNumber, lastLines, lastData, same) ==
  LET lastLineIndex == untouched_lastLineIndex(lineNumber, lastStartLineNumber)
      source_dy == IF lastLineIndex >= 0 /\ lastLineIndex < Len(lastLines)
                   THEN lastLines[lastLineIndex + 1] ELSE -1
      sourceStart == source_dy * WIDTH * 4
      sourceEnd == (source_dy + minimapLineHeight) * WIDTH * 4
      destStart == st.dest_dy * WIDTH * 4
      destEnd == (st.dest_dy + minimapLineHeight) * WIDTH * 4
  IN IF source_dy = -1
     THEN [st EXCEPT !.needed = Append(st.needed, TRUE),
                     !.dest_dy = st.dest_dy + minimapLineHeight]
     ELSE IF untouched_contiguous(st, sourceStart, destStart)
     THEN [st EXCEPT !.copySourceEnd = sourceEnd,
                     !.copyDestEnd = destEnd,
                     !.needed = Append(st.needed, FALSE),
                     !.dest_dy = st.dest_dy + minimapLineHeight]
     ELSE LET flushed == IF st.copySourceStart # -1
                         THEN flushCopy(st, lastData, same) ELSE st
          IN [flushed EXCEPT !.copySourceStart = sourceStart,
                             !.copySourceEnd = sourceEnd,
                             !.copyDestStart = destStart,
                             !.copyDestEnd = destEnd,
                             !.needed = Append(st.needed, FALSE),
                             !.dest_dy = st.dest_dy + minimapLineHeight]

\* the loop of _renderUntouchedLines over the lines from lineNumber to
\* endLineNumber, as its first half followed by its second half; a RangeError
\* ends it
RECURSIVE untouched_loop(_, _, _, _, _, _, _, _, _)
untouched_loop(st, lineNumber, endLineNumber, WIDTH, minimapLineHeight, lastStartLineNumber, lastLines, lastData, same) ==
  IF lineNumber > endLineNumber \/ st.threw
  THEN st
  ELSE IF lineNumber = endLineNumber
  THEN untouched_step(st, lineNumber, WIDTH, minimapLineHeight,
                      lastStartLineNumber, lastLines, lastData, same)
  ELSE LET middle == (lineNumber + endLineNumber) \div 2
       IN untouched_loop(untouched_loop(st, lineNumber, middle, WIDTH, minimapLineHeight,
                                        lastStartLineNumber, lastLines, lastData, same),
                         middle + 1, endLineNumber, WIDTH, minimapLineHeight,
                         lastStartLineNumber, lastLines, lastData, same)

\* one flag too many
untouched_allNeeded_long(startLineNumber, endLineNumber) ==
  [i \in 1 .. (endLineNumber - startLineNumber + 2) |-> TRUE]

\* the flags _renderUntouchedLines returns when there is no lastRenderData
untouched_allNeeded(startLineNumber, endLineNumber) ==
  [i \in 1 .. (endLineNumber - startLineNumber + 1) |-> TRUE]

_renderUntouchedLines(target, startLineNumber, endLineNumber, minimapLineHeight, lastRenderData, last, same) ==
  LET st0 == [needed |-> <<>>, copySourceStart |-> -1, copySourceEnd |-> -1,
              copyDestStart |-> -1, copyDestEnd |-> -1, dest_dy |-> 0,
              targetData |-> target.data, copies |-> <<>>, threw |-> FALSE]
  IN IF lastRenderData = Null
     THEN [st0 EXCEPT !.needed = untouched_allNeeded(startLineNumber, endLineNumber)]
     ELSE LET _lastData == lastRenderData[1]._renderedLines
              st == untouched_loop(st0, startLineNumber, endLineNumber, target.width,
                                   minimapLineHeight, _lastData.rendLineNumberStart,
                                   _lastData.lines, last.data, same)
          IN IF st.copySourceStart # -1 THEN flushCopy(st, last.data, same) ELSE st


(***************************************************************************)
(* Bounds of the model and the environment's value sets                    *)
(***************************************************************************)
MaxLines == 3

MaxSteps == 3

TabSize == 4

\* the lines of the view model: "a" and "b" with the default token color,
\* and "a" tokenized with another color
LineData(content, foreground) ==
  [content |-> content,
   tokens |-> <<[endIndex |-> Len(content), foreground |-> foreground]>>]

LineSeq == <<LineData(<<97>>, 3), LineData(<<98>>, 3), LineData(<<97>>, 4)>>

LineSet == {LineSeq[i] : i \in 1 .. Len(LineSeq)}

\* a document of n lines, neighbours differing
Document(n) == [i \in 1 .. n |-> LineSeq[((i - 1) % Len(LineSeq)) + 1]]

\* what an edit makes of a line: the other content, with the default color
Edited(line) ==
  IF line.content = <<97>> THEN LineData(<<98>>, 3) ELSE LineData(<<97>>, 3)

\* what a tokenization makes of a line: "a" gets the other color
Retokenized(line) ==
  IF line.content = <<97>>
  THEN LineData(<<97>>, IF line.tokens[1].foreground = 3 THEN 4 ELSE 3)
  ELSE line

BaseConfiguration ==
  [renderMinimap |-> RenderMinimap_Small, showSlider |-> "mouseover",
   pixelRatio |-> Num(1), lineHeight |-> 4, minimapWidth |-> 1, height |-> 4]

ConfigSet ==
  {[BaseConfiguration EXCEPT !.renderMinimap = r] :
     r \in {RenderMinimap_None, RenderMinimap_Small, RenderMinimap_SmallBlocks}}
  \cup {[BaseConfiguration EXCEPT !.showSlider = "always"]}

ObjectIds == 1 .. 3



(***************************************************************************)
(* The rendering context the view hands to render(): the viewport geometry *)
(* of a view whose lines are lineHeight high, with scrolling beyond the    *)
(* last line, no view zone in the viewport, and the scroll position on a   *)
(* line boundary (top is the number of lines above the viewport).          *)
(***************************************************************************)
RenderingContext(top, cfg, lineCount) ==
  LET slots == Max2(1, cfg.height \div cfg.lineHeight)
  IN [visibleRange |-> [startLineNumber |-> top + 1,
                        endLineNumber |-> Min2(lineCount, top + slots)],
      viewportHeight |-> cfg.height,
      whitespaceGaps |-> FALSE,
      scrollTop |-> top * cfg.lineHeight,
      scrollHeight |-> lineCount * cfg.lineHeight + cfg.height - cfg.lineHeight]

CtxSet == {RenderingContext(top, configuration, Len(model)) : top \in Range0(Len(model))}

(***************************************************************************)
(* The Minimap view part                                                   *)
(***************************************************************************)
Reachable(lastRenderData, buffers) ==
  (IF lastRenderData = Null THEN {} ELSE {lastRenderData[1]._imageData})
  \cup (IF buffers = Null THEN {} ELSE {buffers[1]._buffers[1], buffers[1]._buffers[2]})

\* objects nothing refers to any more are dropped from the heap
Collect(h, lastRenderData, buffers) ==
  [id \in DOMAIN h |-> IF id \in Reachable(lastRenderData, buffers) THEN h[id] ELSE Null]

\* Minimap._getBuffer(): [buffers, heap, result]
_getBuffer(options, buffers, lastRenderData, h, colorMap) ==
  LET free == ObjectIds \ Reachable(lastRenderData, buffers)
      id0 == SetMin(free)
      id1 == SetMin(free \ {id0})
      image == createImageData(options.canvasInnerWidth, options.canvasInnerHeight)
      created == buffers = Null
      this == IF created
              THEN MinimapBuffers(id0, id1, options.canvasInnerWidth,
                                  options.canvasInnerHeight,
                                  getColor(colorMap, ColorId_DefaultBackground))
              ELSE buffers[1]
      h0 == IF created THEN [h EXCEPT ![id0] = <<image>>, ![id1] = <<image>>] ELSE h
  IN [buffers |-> <<getBuffer_rotate(this)>>,
      heap |-> getBuffer_fill(this, h0),
      result |-> getBuffer_result(this),
      created |-> created]

\* Minimap._onOptionsMaybeChanged(): whether the options changed
_onOptionsMaybeChanged_changed(options, cfg) ==
  ~MinimapOptions_equals(options, MinimapOptions(cfg))

Event(kind, from, to) == [kind |-> kind, fromLineNumber |-> from, toLineNumber |-> to]

\* The summary of the events since the last render pass: how many (0, 1 or
\* 2 for more), the event when it is the only one, and whether one of them
\* edited the document, flushed globally or changed the options.
NoEvents ==
  [count |-> 0, only |-> Event("", 0, 0), edited |-> FALSE, global |-> FALSE,
   options |-> FALSE]

Delivered(e) ==
  /\ events' =
       [count |-> Min2(2, events.count + 1),
        only |-> IF events.count = 0 THEN e ELSE Event("", 0, 0),
        edited |-> events.edited
                   \/ e.kind \in {"linesChanged", "linesDeleted", "linesInserted",
                                  "tokensChanged", "tokensChangedEnds"},
        global |-> events.global
                   \/ e.kind \in {"flushed", "zonesChanged", "tokensColorsChanged"},
        options |-> events.options
                    \/ (e.kind = "configurationChanged" /\ e.fromLineNumber = 1)]
  /\ frame' = Null
  /\ steps < MaxSteps
  /\ steps' = steps + 1
  /\ UNCHANGED <<lin, lout, mouseVars, calls>>

\* an options change that replaces the options and keeps the rest
onConfigurationChanged_keepsFrame(cfg) ==
  /\ cfg \in ConfigSet
  /\ configuration' = cfg
  /\ _options' = MinimapOptions(cfg)
  /\ Delivered(Event("configurationChanged",
                     IF _onOptionsMaybeChanged_changed(_options, cfg) THEN 1 ELSE 0, 0))
  /\ UNCHANGED <<theme, model, _lastRenderData, _buffers, heap>>

onConfigurationChanged(cfg) ==
  /\ cfg \in ConfigSet
  /\ configuration' = cfg
  /\ IF _onOptionsMaybeChanged_changed(_options, cfg)
     THEN /\ _options' = MinimapOptions(cfg)
          /\ _lastRenderData' = Null
          /\ _buffers' = Null
          /\ heap' = Collect(heap, Null, Null)
          /\ Delivered(Event("configurationChanged", 1, 0))
     ELSE /\ UNCHANGED <<_options, _lastRenderData, _buffers, heap>>
          /\ Delivered(Event("configurationChanged", 0, 0))
  /\ UNCHANGED <<theme, model>>

onFlushed(n) ==
  /\ n \in 1 .. MaxLines
  /\ model' = Document(n)
  /\ _lastRenderData' = Null
  /\ heap' = Collect(heap, Null, _buffers)
  /\ Delivered(Event("flushed", 0, 0))
  /\ UNCHANGED <<configuration, theme, _options, _buffers>>

onLinesChanged(from, to) ==
  /\ from \in 1 .. Len(model)
  /\ to \in from .. Len(model)
  /\ model' = [i \in 1 .. Len(model) |->
                 IF i >= from /\ i <= to THEN Edited(model[i]) ELSE model[i]]
  /\ _lastRenderData' =
       IF _lastRenderData # Null
       THEN <<RenderData_onLinesChanged(_lastRenderData[1], Event("", from, to))>>
       ELSE _lastRenderData
  /\ Delivered(Event("linesChanged", from, to))
  /\ UNCHANGED <<configuration, theme, _options, _buffers, heap>>

onLinesDeleted(from, to) ==
  /\ from \in 1 .. Len(model)
  /\ to \in from .. Len(model)
  /\ Len(model) - (to - from + 1) >= 1
  /\ model' = Slice(model, 0, from - 1) \o Slice(model, to, Len(model))
  /\ _lastRenderData' =
       IF _lastRenderData # Null
       THEN <<RenderData_onLinesDeleted(_lastRenderData[1], Event("", from, to))>>
       ELSE _lastRenderData
  /\ Delivered(Event("linesDeleted", from, to))
  /\ UNCHANGED <<configuration, theme, _options, _buffers, heap>>

onLinesInserted(from, to) ==
  /\ from \in 1 .. (Len(model) + 1)
  /\ to \in from .. MaxLines
  /\ Len(model) + (to - from + 1) <= MaxLines
  /\ model' = Slice(model, 0, from - 1)
              \o [i \in 1 .. (to - from + 1) |->
                    Edited(model[Min2(from, Len(model))])]
              \o Slice(model, from - 1, Len(model))
  /\ _lastRenderData' =
       IF _lastRenderData # Null
       THEN <<RenderData_onLinesInserted(_lastRenderData[1], Event("", from, to))>>
       ELSE _lastRenderData
  /\ Delivered(Event("linesInserted", from, to))
  /\ UNCHANGED <<configuration, theme, _options, _buffers, heap>>

onScrollChanged ==
  /\ Delivered(Event("scrollChanged", 0, 0))
  /\ UNCHANGED <<configuration, theme, model, _options, _lastRenderData, _buffers,
                 heap>>

onTokensChanged(from, to) ==
  /\ from \in 1 .. Len(model)
  /\ to \in from .. Len(model)
  /\ model' = [i \in 1 .. Len(model) |->
                 IF i >= from /\ i <= to THEN Retokenized(model[i]) ELSE model[i]]
  /\ _lastRenderData' =
       IF _lastRenderData # Null
       THEN <<RenderData_onTokensChanged(
                _lastRenderData[1],
                [ranges |-> <<[fromLineNumber |-> from, toLineNumber |-> to]>>])>>
       ELSE _lastRenderData
  /\ Delivered(Event("tokensChanged", from, to))
  /\ UNCHANGED <<configuration, theme, _options, _buffers, heap>>

\* onTokensChanged for an event of two ranges, [from, from] and [to, to],
\* with lines between them
onTokensChangedEnds(from, to) ==
  /\ from \in 1 .. Len(model)
  /\ to \in (from + 2) .. Len(model)
  /\ model' = [i \in 1 .. Len(model) |->
                 IF i = from \/ i = to THEN Retokenized(model[i]) ELSE model[i]]
  /\ _lastRenderData' =
       IF _lastRenderData # Null
       THEN <<RenderData_onTokensChanged(
                _lastRenderData[1],
                [ranges |-> <<[fromLineNumber |-> from, toLineNumber |-> from],
                              [fromLineNumber |-> to, toLineNumber |-> to]>>])>>
       ELSE _lastRenderData
  /\ Delivered(Event("tokensChangedEnds", from, to))
  /\ UNCHANGED <<configuration, theme, _options, _buffers, heap>>

\* a color map change that keeps the last frame
onTokensColorsChanged_keepsFrame ==
  /\ theme' = 1 - theme
  /\ _buffers' = Null
  /\ heap' = Collect(heap, _lastRenderData, Null)
  /\ Delivered(Event("tokensColorsChanged", 0, 0))
  /\ UNCHANGED <<configuration, model, _options, _lastRenderData>>

onTokensColorsChanged ==
  /\ theme' = 1 - theme
  /\ _lastRenderData' = Null
  /\ _buffers' = Null
  /\ heap' = Collect(heap, Null, Null)
  /\ Delivered(Event("tokensColorsChanged", 0, 0))
  /\ UNCHANGED <<configuration, model, _options>>

\* a zones change that keeps the last frame
onZonesChanged_keepsFrame ==
  /\ Delivered(Event("zonesChanged", 0, 0))
  /\ UNCHANGED <<configuration, theme, model, _options, _buffers, _lastRenderData,
                 heap>>

onZonesChanged ==
  /\ _lastRenderData' = Null
  /\ heap' = Collect(heap, Null, _buffers)
  /\ Delivered(Event("zonesChanged", 0, 0))
  /\ UNCHANGED <<configuration, theme, model, _options, _buffers>>


\* the loop of render() over the lines of index lineIndex to lineCount - 1,
\* as its first half followed by its second half: draws the needed ones
RECURSIVE render_restOfLines(_, _, _, _, _, _, _, _)
render_restOfLines(target, lineIndex, lineCount, needed, startLineNumber, renderMinimap, colorMap, lines) ==
  IF lineIndex >= lineCount THEN target
  ELSE IF lineIndex + 1 = lineCount
  THEN LET dy == lineIndex * getMinimapLineHeight(renderMinimap)
       IN IF needed[lineIndex + 1]
          THEN _renderLine(target, getColor(colorMap, ColorId_DefaultBackground),
                           backgroundIsLight(colorMap), renderMinimap, colorMap,
                           dy, TabSize, lines[startLineNumber + lineIndex]).target
          ELSE target
  ELSE LET middle == (lineIndex + lineCount) \div 2
           drawn == render_restOfLines(target, lineIndex, middle, needed,
                                       startLineNumber, renderMinimap, colorMap, lines)
       IN IF drawn = target
          THEN render_restOfLines(target, middle, lineCount, needed, startLineNumber,
                                  renderMinimap, colorMap, lines)
          ELSE render_restOfLines(drawn, middle, lineCount, needed, startLineNumber,
                                  renderMinimap, colorMap, lines)

\* row records that start one row down
render_renderedLines_down(lineCount, minimapLineHeight) ==
  [lineIndex \in 1 .. lineCount |-> lineIndex * minimapLineHeight]

\* the MinimapLine records of a render pass: dy per line of the range
render_renderedLines(lineCount, minimapLineHeight) ==
  [lineIndex \in 1 .. lineCount |-> (lineIndex - 1) * minimapLineHeight]

\* the arguments render() passes to MinimapLayout.create
render_layoutArgs(options, renderingCtx, lineCount) ==
  [options |-> options,
   viewportStartLineNumber |-> renderingCtx.visibleRange.startLineNumber,
   viewportEndLineNumber |-> renderingCtx.visibleRange.endLineNumber,
   viewportHeight |-> renderingCtx.viewportHeight,
   viewportContainsWhitespaceGaps |-> renderingCtx.whitespaceGaps,
   lineCount |-> lineCount,
   scrollTop |-> renderingCtx.scrollTop,
   scrollHeight |-> renderingCtx.scrollHeight]

\* the number of lines of the range render() walks
render_lineCount(layout) ==
  IF IsFinite(layout.startLineNumber) /\ IsFinite(layout.endLineNumber)
  THEN Max2(0, layout.endLineNumber[1] - layout.startLineNumber[1] + 1)
  ELSE 0

\* a render pass that never returns at once
render_hidden_never(renderMinimap) == FALSE

\* whether render() returns at once
render_hidden(renderMinimap) == renderMinimap = RenderMinimap_None

\* what a render pass that returns at once (renderMinimap is None) leaves
\* in frame
NoFrame(renderingCtx) ==
  [rendered |-> FALSE, renderingCtx |-> renderingCtx, events |-> events,
   hadLast |-> _lastRenderData # Null, created |-> FALSE,
   prevStart |-> 0, prevLines |-> <<>>, prevImage |-> 0, prevData |-> <<>>,
   image |-> 0, layout |-> Null, startLineNumber |-> 1, endLineNumber |-> 0,
   minimapLineHeight |-> 0, needed |-> <<>>, copies |-> <<>>, threw |-> FALSE]

render(renderingCtx) ==
  /\ steps < MaxSteps
  /\ steps' = steps + 1
  /\ events' = NoEvents
  /\ UNCHANGED <<configuration, theme, model, _options, lin, lout, mouseVars, calls>>
  /\ IF render_hidden(_options.renderMinimap)
     THEN /\ frame' = <<NoFrame(renderingCtx)>>
          /\ UNCHANGED <<_lastRenderData, _buffers, heap>>
     ELSE LET renderMinimap == _options.renderMinimap
              layout == MinimapLayout_create(
                          render_layoutArgs(_options, renderingCtx, Len(model)))
              lineCount == render_lineCount(layout)
              startLineNumber == IF lineCount = 0 THEN 1 ELSE layout.startLineNumber[1]
              endLineNumber == startLineNumber + lineCount - 1
              minimapLineHeight == getMinimapLineHeight(renderMinimap)
              got == _getBuffer(_options, _buffers, _lastRenderData, heap, theme)
              imageData == got.result
              target == got.heap[imageData][1]
              same == _lastRenderData # Null /\ _lastRenderData[1]._imageData = imageData
              last == IF _lastRenderData = Null THEN target
                      ELSE got.heap[_lastRenderData[1]._imageData][1]
              untouched == _renderUntouchedLines(target, startLineNumber, endLineNumber,
                                                 minimapLineHeight, _lastRenderData,
                                                 last, same)
              copied == [target EXCEPT !.data = untouched.targetData]
              drawn == render_restOfLines(copied, 0, lineCount, untouched.needed,
                                          startLineNumber, renderMinimap, theme, model)
              newRenderData == <<RenderData(layout, imageData,
                                            render_renderedLines(lineCount, minimapLineHeight))>>
          IN /\ _buffers' = got.buffers
             /\ IF untouched.threw
                THEN /\ _lastRenderData' = _lastRenderData
                     /\ heap' = [got.heap EXCEPT ![imageData] = <<copied>>]
                ELSE /\ _lastRenderData' = newRenderData
                     /\ heap' = Collect([got.heap EXCEPT ![imageData] = <<drawn>>],
                                        newRenderData, got.buffers)
             /\ frame' = <<[rendered |-> TRUE,
                            renderingCtx |-> renderingCtx,
                            events |-> events,
                            hadLast |-> _lastRenderData # Null,
                            created |-> got.created,
                            prevStart |-> IF _lastRenderData = Null THEN 0
                                          ELSE _lastRenderData[1]._renderedLines.rendLineNumberStart,
                            prevLines |-> IF _lastRenderData = Null THEN <<>>
                                          ELSE _lastRenderData[1]._renderedLines.lines,
                            prevImage |-> IF _lastRenderData = Null THEN 0
                                          ELSE _lastRenderData[1]._imageData,
                            prevData |-> IF _lastRenderData = Null THEN <<>>
                                         ELSE heap[_lastRenderData[1]._imageData][1].data,
                            image |-> imageData,
                            layout |-> <<layout>>,
                            startLineNumber |-> startLineNumber,
                            endLineNumber |-> endLineNumber,
                            minimapLineHeight |-> minimapLineHeight,
                            needed |-> untouched.needed,
                            copies |-> untouched.copies,
                            threw |-> untouched.threw]>>

\* no mouse button was pressed yet; the platform is not read
NoMouse ==
  /\ drag = Null
  /\ sliderActive = FALSE
  /\ isWindows = FALSE
  /\ out = Null

(***************************************************************************)
(* The view part after construction, and its steps                         *)
(***************************************************************************)
Init ==
  /\ configuration = BaseConfiguration
  /\ theme = 0
  /\ model \in {Document(n) : n \in 1 .. MaxLines}
  /\ _options = MinimapOptions(configuration)
  /\ _lastRenderData = Null
  /\ _buffers = Null
  /\ heap = [id \in ObjectIds |-> Null]
  /\ events = NoEvents
  /\ frame = Null
  /\ steps = 0
  /\ lin = Null
  /\ lout = Null
  /\ NoMouse
  /\ calls = Null

Next ==
  \/ \E cfg \in ConfigSet : onConfigurationChanged(cfg)
  \/ \E n \in 1 .. MaxLines : onFlushed(n)
  \/ \E from, to \in 1 .. MaxLines : onLinesChanged(from, to)
  \/ \E from, to \in 1 .. MaxLines : onLinesDeleted(from, to)
  \/ \E from, to \in 1 .. MaxLines : onLinesInserted(from, to)
  \/ onScrollChanged
  \/ \E from, to \in 1 .. MaxLines : onTokensChanged(from, to)
  \/ \E from, to \in 1 .. MaxLines : onTokensChangedEnds(from, to)
  \/ onTokensColorsChanged
  \/ onZonesChanged
  \/ \E renderingCtx \in CtxSet : render(renderingCtx)

Spec == Init /\ [][Next]_vars


(***************************************************************************)
(* Properties of the frames render() produces                              *)
(***************************************************************************)
FrameDrawn == frame # Null /\ frame[1].rendered

\* the bytes of the band of minimapLineHeight pixel rows that starts at row dy
RowBand(data, dy, WIDTH, minimapLineHeight) ==
  [i \in Range0(minimapLineHeight * WIDTH * 4) |-> data[dy * WIDTH * 4 + i]]

\* the band a line rasterizes to on a background-filled buffer
Rasterized(lineData, WIDTH, minimapLineHeight, renderMinimap, colorMap) ==
  LET background == getColor(colorMap, ColorId_DefaultBackground)
      band == [width |-> WIDTH, height |-> minimapLineHeight,
               data |-> _createBackgroundFillData(WIDTH, minimapLineHeight, background)]
  IN _renderLine(band, background, backgroundIsLight(colorMap), renderMinimap,
                 colorMap, 0, TabSize, lineData).target.data

InPrevious(f, lineNumber) ==
  lineNumber >= f.prevStart /\ lineNumber < f.prevStart + Len(f.prevLines)

PreviousDy(f, lineNumber) == f.prevLines[lineNumber - f.prevStart + 1]

AllNeeded(f) ==
  /\ Len(f.needed) = f.endLineNumber - f.startLineNumber + 1
  /\ \A i \in 1 .. Len(f.needed) : f.needed[i]

\* C1: when a render follows a render with no edit and no invalidation in
\* between (only the scroll position may differ), every line that lies in
\* both visible ranges and has a valid row record is not flagged, and its
\* band in the new buffer holds the bytes of its band at the recorded row of
\* the previous buffer.
C1_ReuseCorrectness ==
  (FrameDrawn /\ frame[1].hadLast /\ ~frame[1].events.edited) =>
    LET f == frame[1]
        target == heap[f.image][1]
    IN /\ ~f.threw
       /\ \A i \in 1 .. Len(f.needed) :
            LET lineNumber == f.startLineNumber + i - 1
            IN (InPrevious(f, lineNumber) /\ PreviousDy(f, lineNumber) # -1) =>
                 /\ ~f.needed[i]
                 /\ RowBand(target.data, (i - 1) * f.minimapLineHeight, target.width,
                            f.minimapLineHeight)
                    = RowBand(f.prevData, PreviousDy(f, lineNumber), target.width,
                              f.minimapLineHeight)

\* a scrolled render that reused a row of the previous frame
C1_Witness ==
  /\ FrameDrawn /\ frame[1].hadLast /\ ~frame[1].events.edited
  /\ frame[1].startLineNumber # frame[1].prevStart
  /\ \E i \in 1 .. Len(frame[1].needed) :
       /\ ~frame[1].needed[i]
       /\ InPrevious(frame[1], frame[1].startLineNumber + i - 1)

\* C2: after every render, whatever events came before it, each row that was
\* copied instead of drawn holds exactly the pixels that rasterizing the
\* current content and tokens of its line produces.
C2_CacheCoherence ==
  FrameDrawn =>
    LET f == frame[1]
        target == heap[f.image][1]
    IN \A i \in 1 .. Len(f.needed) :
         ~f.needed[i] =>
           RowBand(target.data, (i - 1) * f.minimapLineHeight, target.width,
                   f.minimapLineHeight)
           = Rasterized(model[f.startLineNumber + i - 1], target.width,
                        f.minimapLineHeight, _options.renderMinimap, theme)

\* a render after an edit that still copied a row
C2_Witness ==
  /\ FrameDrawn /\ frame[1].events.edited
  /\ \E i \in 1 .. Len(frame[1].needed) : ~frame[1].needed[i]

\* the only event since the previous render is lines-changed for one line of
\* the rendered range, and the visible range is the same
C3_case ==
  /\ FrameDrawn /\ frame[1].hadLast
  /\ frame[1].events.count = 1
  /\ frame[1].events.only.kind = "linesChanged"
  /\ frame[1].events.only.fromLineNumber = frame[1].events.only.toLineNumber
  /\ InPrevious(frame[1], frame[1].events.only.fromLineNumber)
  /\ frame[1].startLineNumber = frame[1].prevStart
  /\ Len(frame[1].needed) = Len(frame[1].prevLines)

\* C3: when the only event between two renders with the same visible range is
\* a lines-changed event for one line L of the rendered range, the second
\* render flags row L and no other row.
C3_TargetedInvalidation ==
  C3_case =>
    \A i \in 1 .. Len(frame[1].needed) :
      frame[1].needed[i]
        <=> (frame[1].startLineNumber + i - 1 = frame[1].events.only.fromLineNumber)

\* such a render over more than one row
C3_Witness ==
  /\ C3_case
  /\ Len(frame[1].needed) >= 2
  /\ \E i \in 1 .. Len(frame[1].needed) : frame[1].needed[i]
  /\ \E i \in 1 .. Len(frame[1].needed) : ~frame[1].needed[i]

\* C4: a render that finds no last render data copies nothing, and flags
\* every row of its range: end - start + 1 flags, all true, without an error.
C4_NullFrameState ==
  (FrameDrawn /\ ~frame[1].hadLast) =>
    /\ frame[1].copies = <<>>
    /\ ~frame[1].threw
    /\ AllNeeded(frame[1])

\* a first render over more than one row
C4_Witness ==
  /\ FrameDrawn /\ ~frame[1].hadLast
  /\ Len(frame[1].needed) >= 2

\* C5: a flush, a zones change or a token color map change discards the last
\* render data, so the first render after it copies nothing and flags every
\* row.
C5_GlobalInvalidation ==
  /\ events.global => _lastRenderData = Null
  /\ (FrameDrawn /\ frame[1].events.global) =>
       /\ ~frame[1].hadLast
       /\ frame[1].copies = <<>>
       /\ AllNeeded(frame[1])

\* a render after a global event that followed an earlier render (the buffer
\* manager has handed out its second buffer)
C5_Witness ==
  /\ FrameDrawn /\ frame[1].events.global
  /\ ~frame[1].created
  /\ Len(frame[1].needed) >= 2

\* C6: after a configuration change that makes the options differ, the cached
\* options are replaced and the buffers and the last render data dropped; the
\* next render that draws (renderMinimap is not None) allocates new buffers
\* and flags its whole range, and one that does not draw leaves them dropped.
C6_ConfigurationChange ==
  /\ events.options =>
       /\ _options = MinimapOptions(configuration)
       /\ _lastRenderData = Null
       /\ _buffers = Null
  /\ (FrameDrawn /\ frame[1].events.options) =>
       /\ frame[1].created
       /\ ~frame[1].hadLast
       /\ frame[1].copies = <<>>
       /\ AllNeeded(frame[1])
  /\ (frame # Null /\ ~frame[1].rendered /\ frame[1].events.options) =>
       /\ _lastRenderData = Null
       /\ _buffers = Null

\* a drawing render after an options change that followed an earlier render
C6_Witness ==
  /\ FrameDrawn /\ frame[1].events.options
  /\ frame[1].created
  /\ Len(frame[1].needed) >= 2
  /\ \E id \in ObjectIds : heap[id] = Null

\* C6 as stated: the next render after an options change always allocates
\* new buffers and flags its whole visible range.
C6_AsStated ==
  (frame # Null /\ frame[1].events.options) =>
    /\ frame[1].rendered
    /\ frame[1].created
    /\ _buffers # Null
    /\ AllNeeded(frame[1])

\* the number of bytes of an ImageData's data
ByteLength(data) == Cardinality(DOMAIN data)

\* C25: in every render pass, after any events, every copy that
\* _renderUntouchedLines issues reads bytes inside the previous buffer and
\* writes bytes inside the new one, both WIDTH * HEIGHT * 4 long, and every
\* row of the pass ends inside the buffer: dest_dy + minimapLineHeight <=
\* HEIGHT.
C25_CopyBounds ==
  FrameDrawn =>
    LET f == frame[1]
        target == heap[f.image][1]
    IN /\ ~f.threw
       /\ ByteLength(target.data) = target.width * target.height * 4
       /\ \A i \in 1 .. Len(f.copies) :
            LET copy == f.copies[i]
                length == copy.sourceEnd - copy.sourceStart
            IN /\ ByteLength(f.prevData) = target.width * target.height * 4
               /\ 0 <= copy.sourceStart
               /\ copy.sourceStart < copy.sourceEnd
               /\ copy.sourceEnd <= ByteLength(f.prevData)
               /\ 0 <= copy.destStart
               /\ copy.destStart + length <= ByteLength(target.data)
       /\ \A lineIndex \in 0 .. (f.endLineNumber - f.startLineNumber) :
            lineIndex * f.minimapLineHeight + f.minimapLineHeight <= target.height

\* a render pass with a previous frame that copied the last row of the
\* previous buffer to an earlier row of the new one
C25_Witness ==
  /\ FrameDrawn
  /\ frame[1].hadLast
  /\ \E i \in 1 .. Len(frame[1].copies) :
       /\ frame[1].copies[i].destStart < frame[1].copies[i].sourceStart
       /\ frame[1].copies[i].sourceEnd = ByteLength(frame[1].prevData)
       /\ frame[1].copies[i].sourceEnd
            = (heap[frame[1].image][1].height \div frame[1].minimapLineHeight)
                * frame[1].minimapLineHeight * heap[frame[1].image][1].width * 4


\* C26: a render pass that has a previous frame writes a buffer other than
\* the one the previous frame holds, after any renders, flushes, color
\* changes and configuration changes; and whenever a frame is held, the
\* buffer manager exists and the frame's buffer is the one the manager
\* handed out last.
C26_NoAliasing ==
  /\ (FrameDrawn /\ frame[1].hadLast) => frame[1].prevImage # frame[1].image
  /\ _lastRenderData # Null =>
       /\ _buffers # Null
       /\ _lastRenderData[1]._imageData
            = _buffers[1]._buffers[_buffers[1]._lastUsedBuffer + 1]

\* a render pass that copied rows of the previous frame's buffer into the
\* buffer it drew, which the frame it left now holds
C26_Witness ==
  /\ FrameDrawn
  /\ frame[1].hadLast
  /\ Len(frame[1].copies) > 0
  /\ ~frame[1].created
  /\ _lastRenderData # Null
  /\ _lastRenderData[1]._imageData = frame[1].image


\* C28: every render pass that draws replaces the frame state: afterwards
\* _lastRenderData holds the layout the pass computed, the buffer it drew,
\* and one record per line of [startLineNumber, endLineNumber] with dy =
\* (lineNumber - startLineNumber) * minimapLineHeight, whether the row was
\* copied or drawn; and a copied row lands at that dy also when rows before
\* it were flagged for drawing.
C28_FrameReplaced ==
  FrameDrawn =>
    LET f == frame[1]
        rowBytes == f.minimapLineHeight * heap[f.image][1].width * 4
    IN /\ _lastRenderData # Null
       /\ _lastRenderData[1].renderedLayout = f.layout[1]
       /\ _lastRenderData[1]._imageData = f.image
       /\ _lastRenderData[1]._renderedLines.rendLineNumberStart = f.startLineNumber
       /\ Len(_lastRenderData[1]._renderedLines.lines)
            = f.endLineNumber - f.startLineNumber + 1
       /\ Len(f.needed) = f.endLineNumber - f.startLineNumber + 1
       /\ \A lineNumber \in f.startLineNumber .. f.endLineNumber :
            _lastRenderData[1]._renderedLines.lines[lineNumber - f.startLineNumber + 1]
              = (lineNumber - f.startLineNumber) * f.minimapLineHeight
       /\ \A i \in 1 .. Len(f.needed) :
            ~f.needed[i] =>
              \E k \in 1 .. Len(f.copies) :
                /\ f.copies[k].destStart <= (i - 1) * rowBytes
                /\ i * rowBytes
                     <= f.copies[k].destStart
                          + (f.copies[k].sourceEnd - f.copies[k].sourceStart)

\* a render pass over lines 2 and up that drew its first row and copied its
\* second, after a frame that had an invalidated record
C28_Witness ==
  /\ FrameDrawn
  /\ frame[1].hadLast
  /\ frame[1].startLineNumber > 1
  /\ Len(frame[1].needed) >= 2
  /\ frame[1].needed[1]
  /\ ~frame[1].needed[2]
  /\ \E i \in 1 .. Len(frame[1].prevLines) : frame[1].prevLines[i] = -1


\* the only event since the previous render pass is a tokens-changed event,
\* and the visible range is the same
C33_case ==
  /\ FrameDrawn /\ frame[1].hadLast
  /\ frame[1].events.count = 1
  /\ frame[1].events.only.kind \in {"tokensChanged", "tokensChangedEnds"}
  /\ frame[1].startLineNumber = frame[1].prevStart
  /\ Len(frame[1].needed) = Len(frame[1].prevLines)

\* the lines the ranges of the event cover
C33_Covered ==
  IF frame[1].events.only.kind = "tokensChanged"
  THEN frame[1].events.only.fromLineNumber .. frame[1].events.only.toLineNumber
  ELSE {frame[1].events.only.fromLineNumber, frame[1].events.only.toLineNumber}

\* C33: after a render, a tokens-changed event whose ranges cover the set R
\* of lines makes the next render over the same visible range flag exactly
\* the rows of the rendered lines in R, and no other row.
C33_TokensInvalidation ==
  C33_case =>
    \A i \in 1 .. Len(frame[1].needed) :
      frame[1].needed[i] <=> (frame[1].startLineNumber + i - 1 \in C33_Covered)

\* such a render after an event of two ranges, one of them on a rendered
\* line, that drew one row and copied another
C33_Witness ==
  /\ C33_case
  /\ frame[1].events.only.kind = "tokensChangedEnds"
  /\ \E i \in 1 .. Len(frame[1].needed) : frame[1].needed[i]
  /\ \E i \in 1 .. Len(frame[1].needed) : ~frame[1].needed[i]


\* a step that is a render pass with the minimap off acquires no buffer,
\* computes no layout and leaves the last render data as it is
C34_Render ==
  (frame' # Null /\ ~frame'[1].rendered) =>
    /\ _options.renderMinimap = RenderMinimap_None
    /\ UNCHANGED <<_options, _lastRenderData, _buffers, heap>>
    /\ ~frame'[1].created
    /\ frame'[1].layout = Null
    /\ frame'[1].copies = <<>>

\* C34: when renderMinimap is None, render() acquires no buffer (the index
\* of the buffer in use does not advance), computes no layout and leaves the
\* last render data unchanged; no last render data exists while the minimap
\* is off, so a later render with the minimap on copies nothing from a frame
\* of that time.
C34_RenderWhileOff ==
  /\ [](_options.renderMinimap = RenderMinimap_None =>
          (_lastRenderData = Null /\ _buffers = Null))
  /\ [](FrameDrawn => _options.renderMinimap # RenderMinimap_None)
  /\ [][C34_Render]_vars

\* a render pass right after the configuration change that switched the
\* minimap off
C34_Witness ==
  /\ frame # Null
  /\ ~frame[1].rendered
  /\ frame[1].events.count = 1
  /\ frame[1].events.options
  /\ _options.renderMinimap = RenderMinimap_None
  /\ _lastRenderData = Null
  /\ _buffers = Null


(***************************************************************************)
(* MinimapLayout.create over a bounded set of render inputs                *)
(***************************************************************************)
MaxLayoutLines == 6

\* the settings of the editors the layout is computed for
LayoutConfigSet ==
  {[BaseConfiguration EXCEPT !.renderMinimap = renderMinimap,
                             !.pixelRatio = Num(pixelRatio),
                             !.lineHeight = 8,
                             !.height = height] :
     renderMinimap \in RenderMinimap_Small .. RenderMinimap_LargeBlocks,
     pixelRatio \in 1 .. 2,
     height \in {16, 24}}

\* the scroll height of a document: its lines, a whitespace gap as high as a
\* line when there is one, plus the room below the last line when scrolling
\* beyond it is on, and at least the viewport
LayoutScrollHeight(cfg, lineCount, beyondLastLine, gaps) ==
  Max2(cfg.height,
       lineCount * cfg.lineHeight
         + (IF gaps THEN cfg.lineHeight ELSE 0)
         + (IF beyondLastLine THEN cfg.height - cfg.lineHeight ELSE 0))

\* what render() passes to MinimapLayout.create at a scroll position; a
\* whitespace gap takes the place of the last visible line
LayoutArgs(cfg, lineCount, beyondLastLine, gaps, scrollTop) ==
  LET first == scrollTop \div cfg.lineHeight + 1
      last == Min2(lineCount, (scrollTop + cfg.height - 1) \div cfg.lineHeight + 1)
  IN [options |-> MinimapOptions(cfg),
      viewportStartLineNumber |-> first,
      viewportEndLineNumber |-> IF gaps THEN Max2(first, last - 1) ELSE last,
      viewportHeight |-> cfg.height,
      viewportContainsWhitespaceGaps |-> gaps,
      lineCount |-> lineCount,
      scrollTop |-> scrollTop,
      scrollHeight |-> LayoutScrollHeight(cfg, lineCount, beyondLastLine, gaps)]

LayoutArgsSet ==
  UNION {{LayoutArgs(cfg, lineCount, beyondLastLine, gaps, scrollTop) :
            scrollTop \in {t \in 0 .. (LayoutScrollHeight(cfg, lineCount, beyondLastLine,
                                                          gaps)
                                       - cfg.height) :
                             t % 4 = 0 /\ t \div cfg.lineHeight < lineCount}} :
         cfg \in LayoutConfigSet, lineCount \in 1 .. MaxLayoutLines,
         beyondLastLine \in BOOLEAN, gaps \in BOOLEAN}

LayoutInit ==
  /\ configuration = BaseConfiguration
  /\ theme = 0
  /\ model = Document(1)
  /\ _options = MinimapOptions(configuration)
  /\ _lastRenderData = Null
  /\ _buffers = Null
  /\ heap = [id \in ObjectIds |-> Null]
  /\ events = NoEvents
  /\ frame = Null
  /\ steps = 0
  /\ lin \in {<<a>> : a \in LayoutArgsSet}
  /\ lout = Null
  /\ NoMouse
  /\ calls = Null

create ==
  /\ lin # Null
  /\ lout = Null
  /\ lout' = <<MinimapLayout_create(lin[1])>>
  /\ UNCHANGED <<minimapVars, events, frame, steps, lin, mouseVars, calls>>

\* what render() passes for the same editor and document scrolled to scrollTop
Scrolled(a, scrollTop) ==
  LET first == scrollTop \div a.options.lineHeight + 1
      last == Min2(a.lineCount,
                   (scrollTop + a.viewportHeight - 1) \div a.options.lineHeight + 1)
  IN [a EXCEPT !.scrollTop = scrollTop,
               !.viewportStartLineNumber = first,
               !.viewportEndLineNumber =
                 IF a.viewportContainsWhitespaceGaps THEN Max2(first, last - 1) ELSE last]

\* two layouts of one geometry: the same options, document and viewport, and
\* the same slider, at two scroll positions
SameGeometry(a, b) ==
  /\ a.options = b.options
  /\ a.lineCount = b.lineCount
  /\ a.viewportHeight = b.viewportHeight
  /\ a.scrollHeight = b.scrollHeight
  /\ create_sliderHeight(a) = create_sliderHeight(b)

\* the scroll position asked of the layout for no delta and for the delta
\* between its slider and the slider of another layout of its geometry
desire ==
  /\ lin # Null
  /\ Len(lout) = 1
  /\ \E scrollTop \in {t \in 0 .. (lin[1].scrollHeight - lin[1].viewportHeight) :
                         t % 4 = 0 /\ t \div lin[1].options.lineHeight < lin[1].lineCount} :
       /\ SameGeometry(lin[1], Scrolled(lin[1], scrollTop))
       /\ LET other == MinimapLayout_create(Scrolled(lin[1], scrollTop))
              delta == Sub(other.sliderTop, lout[1].sliderTop)
          IN lout' = Append(lout,
                            [to |-> other.scrollTop,
                             delta |-> delta,
                             atRest |-> getDesiredScrollTopFromDelta(lout[1], Num(0)),
                             desired |-> getDesiredScrollTopFromDelta(lout[1], delta)])
  /\ UNCHANGED <<minimapVars, events, frame, steps, lin, mouseVars, calls>>

LayoutNext == create \/ desire

SpecLayout == LayoutInit /\ [][LayoutNext]_vars

LayoutDone == lin # Null /\ lout # Null

\* C7: when the rows that fit in the minimap (floor(canvasInnerHeight /
\* minimapLineHeight)) are at least the line count, the layout's range is
\* exactly [1, lineCount], whatever the scroll position and viewport lines.
C7_FullFit ==
  (LayoutDone
   /\ lin[1].options.canvasInnerHeight
        \div getMinimapLineHeight(lin[1].options.renderMinimap) >= lin[1].lineCount) =>
    /\ lout[1].startLineNumber = Num(1)
    /\ lout[1].endLineNumber = Num(lin[1].lineCount)

\* a scrolled layout of a document whose lines exactly fill the minimap
C7_Witness ==
  /\ LayoutDone
  /\ lin[1].options.canvasInnerHeight
       \div getMinimapLineHeight(lin[1].options.renderMinimap) = lin[1].lineCount
  /\ lin[1].viewportStartLineNumber > 1
  /\ lin[1].scrollTop > 0
  /\ lout[1].endLineNumber = Num(lin[1].lineCount)

\* C8 as stated: for every scrollTop in [0, scrollHeight - viewportHeight],
\* 0 <= sliderTop and sliderTop + sliderHeight <= the minimap's height.
C8_SliderContainment ==
  (LayoutDone
   /\ lin[1].scrollTop >= 0
   /\ lin[1].scrollTop <= lin[1].scrollHeight - lin[1].viewportHeight) =>
    /\ Leq(Num(0), lout[1].sliderTop)
    /\ Leq(Add(lout[1].sliderTop, lout[1].sliderHeight),
           Num(lin[1].options.minimapHeight))

\* C9 as stated: when scrollHeight - viewportHeight is 0 nothing is divided
\* by zero (the ratio is a finite number) and sliderTop is 0.
C9_NoOverflowDegenerate ==
  (LayoutDone /\ lin[1].scrollHeight - lin[1].viewportHeight = 0) =>
    /\ IsFinite(lout[1].computedSliderRatio)
    /\ lout[1].sliderTop = Num(0)

C24_ViewportInRange ==
  LayoutDone =>
    /\ Leq(lout[1].startLineNumber, Num(lin[1].viewportStartLineNumber))
    /\ Leq(Num(lin[1].viewportStartLineNumber), lout[1].endLineNumber)

\* the viewport has whitespace gaps and does not show the last line
GapCase(a) == a.viewportContainsWhitespaceGaps /\ a.viewportEndLineNumber # a.lineCount

\* floor(lines * pitch / pixelRatio) for lines = numerator / denominator
ScaledHeight(a, numerator, denominator) ==
  Num((numerator * getMinimapLineHeight(a.options.renderMinimap)
         * a.options.pixelRatio[2])
      \div (denominator * a.options.pixelRatio[1]))

\* C32: when the viewport has whitespace gaps and its last visible line is
\* not the document's last line, sliderHeight = floor(visibleLineCount *
\* pitch / pixelRatio) with visibleLineCount = viewportEnd - viewportStart
\* + 1; otherwise sliderHeight = floor(viewportHeight / lineHeight * pitch /
\* pixelRatio), the same at every scroll offset and visible range.
C32_SliderHeight ==
  LayoutDone =>
    LET a == lin[1]
    IN /\ GapCase(a) =>
            lout[1].sliderHeight
              = ScaledHeight(a, a.viewportEndLineNumber - a.viewportStartLineNumber + 1, 1)
       /\ ~GapCase(a) =>
            lout[1].sliderHeight = ScaledHeight(a, a.viewportHeight, a.options.lineHeight)
       /\ (Len(lout) = 2 /\ ~GapCase(a) /\ ~GapCase(Scrolled(a, lout[2].to))) =>
            MinimapLayout_create(Scrolled(a, lout[2].to)).sliderHeight
              = lout[1].sliderHeight

\* a viewport with a gap over fewer lines than its height holds, whose slider
\* is lower than the stable one
C32_Witness ==
  /\ LayoutDone
  /\ GapCase(lin[1])
  /\ lin[1].viewportEndLineNumber > lin[1].viewportStartLineNumber
  /\ Less(lout[1].sliderHeight,
          ScaledHeight(lin[1], lin[1].viewportHeight, lin[1].options.lineHeight))


LayoutDesired == lin # Null /\ Len(lout) = 2

\* C19 as stated: for a layout created at integer scroll offset S with a
\* non-zero ratio, getDesiredScrollTopFromDelta(0) = S, and the delta between
\* its slider top and the slider top of another layout of the same geometry
\* maps to the other layout's scroll offset.
C19_Inverse ==
  (LayoutDesired /\ lout[1].computedSliderRatio # Num(0)) =>
    /\ lout[2].atRest = Num(lin[1].scrollTop)
    /\ lout[2].desired = Num(lout[2].to)

\* the inverse on the documents that scroll (scrollHeight > viewportHeight),
\* where the ratio is a finite number
C19_InverseWhenScrollable ==
  (LayoutDesired
   /\ lin[1].scrollHeight > lin[1].viewportHeight
   /\ lout[1].computedSliderRatio # Num(0)) =>
    /\ IsFinite(lout[1].computedSliderRatio)
    /\ lout[2].atRest = Num(lin[1].scrollTop)
    /\ lout[2].desired = Num(lout[2].to)

\* a delta between two different scroll positions of a scrolling document
C19_ScrollableCase ==
  /\ LayoutDesired
  /\ lin[1].scrollHeight > lin[1].viewportHeight
  /\ lout[1].computedSliderRatio # Num(0)
  /\ lin[1].scrollTop > 0
  /\ lout[2].to # lin[1].scrollTop
  /\ lout[2].delta # Num(0)


(***************************************************************************)
(* The walk-through of a long document: 1000 lines of 20 pixels in an      *)
(* editor 600 pixels high, whose minimap has room for 300 rows             *)
(***************************************************************************)
ScenarioConfiguration ==
  [BaseConfiguration EXCEPT !.lineHeight = 20, !.height = 600]

\* the rendering context of the viewport scrolled to a pixel offset
ScrolledContext(scrollTop, cfg, lineCount) ==
  [visibleRange |->
     [startLineNumber |-> scrollTop \div cfg.lineHeight + 1,
      endLineNumber |-> Min2(lineCount,
                             (scrollTop + cfg.height - 1) \div cfg.lineHeight + 1)],
   viewportHeight |-> cfg.height,
   whitespaceGaps |-> FALSE,
   scrollTop |-> scrollTop,
   scrollHeight |-> lineCount * cfg.lineHeight + cfg.height - cfg.lineHeight]

ScenarioCtxSet ==
  {ScrolledContext(scrollTop, configuration, Len(model)) :
     scrollTop \in {0, 2000, 5400, 9990, 19980}}

ScenarioInit ==
  /\ configuration = ScenarioConfiguration
  /\ theme = 0
  /\ model = Document(1000)
  /\ _options = MinimapOptions(configuration)
  /\ _lastRenderData = Null
  /\ _buffers = Null
  /\ heap = [id \in ObjectIds |-> Null]
  /\ events = NoEvents
  /\ frame = Null
  /\ steps = 0
  /\ lin = Null
  /\ lout = Null
  /\ NoMouse
  /\ calls = Null

ScenarioNext ==
  \/ onScrollChanged
  \/ \E renderingCtx \in ScenarioCtxSet : render(renderingCtx)

SpecScenario == ScenarioInit /\ [][ScenarioNext]_vars

\* the viewport shows the lines from first to last
Showing(f, first, last) ==
  /\ f.renderingCtx.visibleRange.startLineNumber = first
  /\ f.renderingCtx.visibleRange.endLineNumber = last

\* C10: with 1000 lines and room for 300 rows, the first render, with the
\* viewport on lines 1-30 at scroll offset 0, has the range [1, 300] and
\* flags all its rows; a render with the viewport on lines 500-530 that
\* follows a frame of [1, 300] with no content change has a range disjoint
\* from [1, 300], copies nothing and flags all 300 rows of its range.
C10_Scenario ==
  (FrameDrawn /\ Len(model) = 1000 /\ create_minimapLinesFitting(_options) = 300) =>
    /\ (~frame[1].hadLast /\ Showing(frame[1], 1, 30)
        /\ frame[1].renderingCtx.scrollTop = 0) =>
         /\ frame[1].startLineNumber = 1
         /\ frame[1].endLineNumber = 300
         /\ AllNeeded(frame[1])
    /\ (frame[1].hadLast /\ ~frame[1].events.edited
        /\ frame[1].prevStart = 1 /\ Len(frame[1].prevLines) = 300
        /\ Showing(frame[1], 500, 530)) =>
         /\ frame[1].startLineNumber > 300
         /\ frame[1].copies = <<>>
         /\ Len(frame[1].needed) = 300
         /\ AllNeeded(frame[1])

\* the second render of the walk-through
C10_Witness ==
  /\ FrameDrawn /\ Len(model) = 1000 /\ create_minimapLinesFitting(_options) = 300
  /\ frame[1].hadLast /\ ~frame[1].events.edited
  /\ frame[1].prevStart = 1 /\ Len(frame[1].prevLines) = 300
  /\ Showing(frame[1], 500, 530)
  /\ Len(frame[1].needed) = 300


(***************************************************************************)
(* A MinimapBuffers on its own: getBuffer() calls, and between them the    *)
(* writes of a render pass into the buffer that was handed out             *)
(***************************************************************************)
MaxCalls == 4

\* the color bytes a render pass may leave at an offset
Scribbles == {0, 7}

BuffersInit ==
  /\ configuration = BaseConfiguration
  /\ theme \in {0, 1}
  /\ model = Document(1)
  /\ _options = MinimapOptions(configuration)
  /\ _lastRenderData = Null
  /\ _buffers = <<MinimapBuffers(1, 2, 1, 2, getColor(theme, ColorId_DefaultBackground))>>
  /\ heap = [id \in ObjectIds |-> IF id \in {1, 2} THEN <<createImageData(1, 2)>> ELSE Null]
  /\ events = NoEvents
  /\ frame = Null
  /\ steps = 0
  /\ lin = Null
  /\ lout = Null
  /\ NoMouse
  /\ calls = <<[handed |-> <<>>, fresh |-> FALSE, written |-> {}]>>

\* MinimapBuffers.getBuffer()
getBuffer ==
  /\ calls # Null
  /\ Len(calls[1].handed) < MaxCalls
  /\ _buffers' = <<getBuffer_rotate(_buffers[1])>>
  /\ heap' = getBuffer_fill(_buffers[1], heap)
  /\ calls' = <<[calls[1] EXCEPT !.handed = Append(@, getBuffer_result(_buffers[1])),
                                !.fresh = TRUE]>>
  /\ UNCHANGED <<configuration, theme, model, _options, _lastRenderData, events,
                 frame, steps, lin, lout, mouseVars>>

\* a write of the render pass into the buffer it was handed
writeBuffer(offset, byte) ==
  /\ calls # Null
  /\ calls[1].handed # <<>>
  /\ LET id == calls[1].handed[Len(calls[1].handed)]
     IN /\ offset \in DOMAIN heap[id][1].data
        /\ heap' = [heap EXCEPT ![id] =
                      <<[heap[id][1] EXCEPT !.data = [@ EXCEPT ![offset] = byte]]>>]
        /\ calls' = <<[calls[1] EXCEPT !.fresh = FALSE, !.written = @ \cup {id}]>>
  /\ UNCHANGED <<configuration, theme, model, _options, _lastRenderData, _buffers,
                 events, frame, steps, lin, lout, mouseVars>>

BuffersNext ==
  \/ getBuffer
  \/ \E offset \in {0, 3, 7}, byte \in Scribbles : writeBuffer(offset, byte)

SpecBuffers == BuffersInit /\ [][BuffersNext]_vars

\* C14: a buffer manager keeps two buffers and hands them out in turn: two
\* consecutive getBuffer() calls return different buffers, the calls k and
\* k + 2 return the same one, and every buffer returned is one of the two.
C14_Rotation ==
  calls # Null =>
    LET handed == calls[1].handed
    IN /\ Len(_buffers[1]._buffers) = 2
       /\ \A k \in 1 .. Len(handed) :
            /\ handed[k] \in {_buffers[1]._buffers[1], _buffers[1]._buffers[2]}
            /\ k + 1 <= Len(handed) => handed[k + 1] # handed[k]
            /\ k + 2 <= Len(handed) => handed[k + 2] = handed[k]

\* three calls were made
C14_Witness ==
  /\ calls # Null
  /\ Len(calls[1].handed) >= 3

\* C15: right after a getBuffer() call every pixel of the buffer it returned
\* is the background color with alpha 255, whatever was written before.
C15_BackgroundFill ==
  (calls # Null /\ calls[1].fresh) =>
    LET id == calls[1].handed[Len(calls[1].handed)]
        data == heap[id][1].data
        background == getColor(theme, ColorId_DefaultBackground)
    IN \A pixel \in Range0(heap[id][1].width * heap[id][1].height) :
         /\ data[4 * pixel] = background.r
         /\ data[4 * pixel + 1] = background.g
         /\ data[4 * pixel + 2] = background.b
         /\ data[4 * pixel + 3] = 255

\* a buffer that was written into is handed out again
C15_Witness ==
  /\ calls # Null
  /\ calls[1].fresh
  /\ calls[1].handed[Len(calls[1].handed)] \in calls[1].written
  /\ Len(calls[1].handed) >= 3


(***************************************************************************)
(* Minimap._renderLine on its own, over short lines of 'a', 'b', tabs and  *)
(* spaces in one or two tokens                                             *)
(***************************************************************************)
MaxLineLen == 4

\* the lines of exactly n characters
RECURSIVE Contents(_)
Contents(n) ==
  IF n = 0 THEN {<<>>}
  ELSE {Append(content, charCode) :
          content \in Contents(n - 1),
          charCode \in {97, 98, CharCode_Tab, CharCode_Space}}

\* a line in one token, or in two tokens that meet at split
Tokenized(content, split) ==
  [content |-> content,
   tokens |-> IF split = Len(content)
              THEN <<[endIndex |-> Len(content), foreground |-> 3]>>
              ELSE <<[endIndex |-> split, foreground |-> 3],
                     [endIndex |-> Len(content), foreground |-> 4]>>]

LineArgsSet ==
  {[target |-> [width |-> WIDTH,
                height |-> getMinimapLineHeight(renderMinimap),
                data |-> _createBackgroundFillData(
                           WIDTH, getMinimapLineHeight(renderMinimap),
                           getColor(0, ColorId_DefaultBackground))],
    renderMinimap |-> renderMinimap,
    tabSize |-> tabSize,
    lineData |-> lineData] :
     WIDTH \in {3, 10},
     renderMinimap \in RenderMinimap_Small .. RenderMinimap_LargeBlocks,
     tabSize \in {2, TabSize},
     lineData \in UNION {{Tokenized(content, split) : split \in 1 .. Len(content)} :
                           content \in UNION {Contents(n) : n \in 1 .. MaxLineLen}}}

LineInit ==
  /\ configuration = BaseConfiguration
  /\ theme = 0
  /\ model = Document(1)
  /\ _options = MinimapOptions(configuration)
  /\ _lastRenderData = Null
  /\ _buffers = Null
  /\ heap = [id \in ObjectIds |-> Null]
  /\ events = NoEvents
  /\ frame = Null
  /\ steps = 0
  /\ lin \in {<<a>> : a \in LineArgsSet}
  /\ lout = Null
  /\ NoMouse
  /\ calls = Null

renderLine ==
  /\ lin # Null
  /\ lout = Null
  /\ lout' = <<_renderLine(lin[1].target,
                           getColor(theme, ColorId_DefaultBackground),
                           backgroundIsLight(theme), lin[1].renderMinimap, theme, 0,
                           lin[1].tabSize, lin[1].lineData)>>
  /\ UNCHANGED <<minimapVars, events, frame, steps, lin, mouseVars, calls>>

LineNext == renderLine

SpecLine == LineInit /\ [][LineNext]_vars

\* the visual column of the character at index charIndex (from 0): a tab
\* before it reaches to the next multiple of tabSize, any other character
\* takes one column
RECURSIVE VisualColumn(_, _, _)
VisualColumn(content, charIndex, tabSize) ==
  IF charIndex = 0 THEN 0
  ELSE LET before == VisualColumn(content, charIndex - 1, tabSize)
       IN IF content[charIndex] = CharCode_Tab
          THEN before + tabSize - (before % tabSize)
          ELSE before + 1

\* C16: every glyph _renderLine draws is at its character's visual column,
\* where a tab at column c reaches to the next multiple of tabSize (tabSize -
\* c mod tabSize columns, earlier tabs counted), each column one cell wide;
\* for "a<tab>b" with tab size 4 the glyph of 'b' is at dx = 4 * charWidth.
C16_TabExpansion ==
  (lin # Null /\ lout # Null) =>
    LET charWidth == getMinimapCharWidth(lin[1].renderMinimap)
        content == lin[1].lineData.content
    IN /\ \A i \in 1 .. Len(lout[1].cells) :
            lout[1].cells[i].dx
              = VisualColumn(content, lout[1].cells[i].charIndex, lin[1].tabSize)
                  * charWidth
       /\ (content = <<97, CharCode_Tab, 98>> /\ lin[1].tabSize = 4
           /\ lin[1].target.width >= 5 * charWidth) =>
            \E i \in 1 .. Len(lout[1].cells) :
              /\ lout[1].cells[i].charIndex = 2
              /\ lout[1].cells[i].dx = 4 * charWidth

\* a glyph was drawn after two tabs with another character between them
C16_Witness ==
  /\ lin # Null /\ lout # Null
  /\ \E i \in 1 .. Len(lout[1].cells) :
       LET charIndex == lout[1].cells[i].charIndex
       IN /\ charIndex >= 3
          /\ lin[1].lineData.content[charIndex] = CharCode_Tab
          /\ \E j \in 1 .. (charIndex - 2) : lin[1].lineData.content[j] = CharCode_Tab
          /\ \E j \in 1 .. (charIndex - 1) : lin[1].lineData.content[j] # CharCode_Tab

\* C17: every glyph cell drawn starts at a dx with dx + charWidth <= the
\* buffer's width, and no character at or after the first one that is
\* reached with dx > width - charWidth is drawn, in any token.
C17_RightEdgeClipping ==
  (lin # Null /\ lout # Null) =>
    LET charWidth == getMinimapCharWidth(lin[1].renderMinimap)
        content == lin[1].lineData.content
        WIDTH == lin[1].target.width
    IN \A i \in 1 .. Len(lout[1].cells) :
         /\ lout[1].cells[i].dx + charWidth <= WIDTH
         /\ \A j \in 0 .. lout[1].cells[i].charIndex :
              VisualColumn(content, j, lin[1].tabSize) * charWidth <= WIDTH - charWidth

\* a line that reached the right edge in its first token, with a glyph drawn
\* before it and a character left in its second token
C17_Witness ==
  /\ lin # Null /\ lout # Null
  /\ lout[1].hitEdge
  /\ lout[1].cells # <<>>
  /\ Len(lin[1].lineData.tokens) = 2
  /\ lout[1].tokenIndex = 0
  /\ lin[1].lineData.content[Len(lin[1].lineData.content)] \in {97, 98}


(***************************************************************************)
(* The mouse listeners of Minimap: the click on the canvas and the drag of *)
(* the slider.  drag is what the GlobalMouseMoveMonitor holds while it     *)
(* monitors: the values its move callback closed over.  out is            *)
(* <<[event, leftButton, posx, posy, monitoring, gesture, request]>>:     *)
(* monitoring tells whether the monitor was hooked when the event came,   *)
(* gesture is "pressed" from a primary-button press on a rendered slider  *)
(* to the next release, "released" from then on and "idle" before the    *)
(* first press, and request is <<>> or <<[kind, value]>> for what the     *)
(* listener asked of the view.                                            *)
(***************************************************************************)
MOUSE_DRAG_RESET_DISTANCE == 140

\* the pointer positions of the events; the slider is pressed at posy = 1
PosX == {0, 141}

PosY == {0, 3}

\* the horizontal positions of the moves: at the press, and 140 and 141 away
MovePosX == {0, MOUSE_DRAG_RESET_DISTANCE, MOUSE_DRAG_RESET_DISTANCE + 1}

Gesture == IF out = Null THEN "idle" ELSE out[1].gesture

\* whether a move of the gesture under way has reset the scroll offset
Snapped(event, posx) ==
  /\ drag # Null
  /\ \/ out # Null /\ out[1].snapped
     \/ /\ event = "move"
        /\ isWindows
        /\ AbsInt(posx - drag[1].initialMouseOrthogonalPosition)
             > MOUSE_DRAG_RESET_DISTANCE

MouseEvent(event, leftButton, posx, posy, gesture, request) ==
  <<[event |-> event, leftButton |-> leftButton, posx |-> posx, posy |-> posy,
     monitoring |-> drag # Null, gesture |-> gesture, request |-> request,
     snapped |-> Snapped(event, posx)]>>

\* the line number of the canvas listener without Math.min
canvas_lineNumber_unclamped(lineNumber, lineCount) == lineNumber

canvas_lineNumber(lineNumber, lineCount) == MathMin(lineNumber, Num(lineCount))

\* the 'mousedown' listener of the canvas
canvasMouseDown(offsetY) ==
  /\ LET renderMinimap == _options.renderMinimap
     IN IF renderMinimap = RenderMinimap_None \/ _lastRenderData = Null
        THEN out' = MouseEvent("canvasDown", TRUE, 0, offsetY, Gesture, Null)
        ELSE LET minimapLineHeight == getMinimapLineHeight(renderMinimap)
                 internalOffsetY == Mul(_options.pixelRatio, Num(offsetY))
                 lineIndex == MathFloor(Div(internalOffsetY, Num(minimapLineHeight)))
                 lineNumber ==
                   canvas_lineNumber(
                     Add(lineIndex, _lastRenderData[1].renderedLayout.startLineNumber),
                     Len(model))
             IN out' = MouseEvent("canvasDown", TRUE, 0, offsetY, Gesture,
                                  <<[kind |-> "reveal", value |-> lineNumber]>>)
  /\ UNCHANGED <<minimapVars, lin, lout, drag, sliderActive, isWindows, calls>>

GlobalMouseMoveMonitor_isMonitoring == drag # Null

\* GlobalMouseMoveMonitor.startMonitoring: nothing when already monitoring
startMonitoring(captured) ==
  IF GlobalMouseMoveMonitor_isMonitoring THEN drag ELSE <<captured>>

\* the 'mousedown' listener of the slider
sliderMouseDown(leftButton, posx, posy) ==
  /\ IF leftButton /\ _lastRenderData # Null
     THEN /\ sliderActive' = TRUE
          /\ drag' = startMonitoring(
                       [initialMousePosition |-> posy,
                        initialMouseOrthogonalPosition |-> posx,
                        initialSliderState |-> _lastRenderData[1].renderedLayout])
          /\ out' = MouseEvent("sliderDown", leftButton, posx, posy, "pressed", Null)
     ELSE /\ UNCHANGED <<drag, sliderActive>>
          /\ out' = MouseEvent("sliderDown", leftButton, posx, posy, Gesture, Null)
  /\ UNCHANGED <<minimapVars, lin, lout, isWindows, calls>>

\* the horizontal distance taken with its sign
slider_mouseOrthogonalDelta_signed(posx, initialMouseOrthogonalPosition) ==
  posx - initialMouseOrthogonalPosition

slider_mouseOrthogonalDelta(posx, initialMouseOrthogonalPosition) ==
  AbsInt(posx - initialMouseOrthogonalPosition)

\* a reset on every platform
slider_reset_anyPlatform(mouseOrthogonalDelta) ==
  mouseOrthogonalDelta > MOUSE_DRAG_RESET_DISTANCE

\* whether the move callback resets the drag
slider_reset(mouseOrthogonalDelta) ==
  isWindows /\ mouseOrthogonalDelta > MOUSE_DRAG_RESET_DISTANCE

\* a move callback that reads the layout of the last render pass
slider_mouseMoveCallback_live(captured, posx, posy) ==
  LET initialSliderState == IF _lastRenderData = Null THEN captured.initialSliderState
                            ELSE _lastRenderData[1].renderedLayout
  IN IF slider_reset(slider_mouseOrthogonalDelta(
                       posx, captured.initialMouseOrthogonalPosition))
     THEN Num(initialSliderState.scrollTop)
     ELSE getDesiredScrollTopFromDelta(initialSliderState,
                                       Num(posy - captured.initialMousePosition))

\* the scrollTop the move callback of the slider passes to setScrollPosition
slider_mouseMoveCallback(captured, posx, posy) ==
  LET mouseOrthogonalDelta ==
        slider_mouseOrthogonalDelta(posx, captured.initialMouseOrthogonalPosition)
  IN IF slider_reset(mouseOrthogonalDelta)
     THEN Num(captured.initialSliderState.scrollTop)
     ELSE LET mouseDelta == posy - captured.initialMousePosition
          IN getDesiredScrollTopFromDelta(captured.initialSliderState, Num(mouseDelta))

\* a monitor that calls the last move callback it had even when unhooked
mouseMove_dispatch_always(posx, posy) ==
  IF GlobalMouseMoveMonitor_isMonitoring
  THEN <<[kind |-> "scroll", value |-> slider_mouseMoveCallback(drag[1], posx, posy)]>>
  ELSE <<[kind |-> "scroll", value |-> Num(posy)]>>

\* a mouse move reaches the move callback only while the monitor is hooked
mouseMove_dispatch(posx, posy) ==
  IF GlobalMouseMoveMonitor_isMonitoring
  THEN <<[kind |-> "scroll", value |-> slider_mouseMoveCallback(drag[1], posx, posy)]>>
  ELSE Null

\* a 'mousemove' anywhere
sliderMouseMove(posx, posy) ==
  /\ out' = MouseEvent("move", TRUE, posx, posy, Gesture, mouseMove_dispatch(posx, posy))
  /\ UNCHANGED <<minimapVars, lin, lout, drag, sliderActive, isWindows, calls>>

\* a stop callback that leaves the class on the slider
slider_onStopCallback_kept(active) == active

\* the stop callback of the slider: toggleClassName('active', false)
slider_onStopCallback(active) == FALSE

\* a release that drops the last render data
mouseUp_dropsFrame ==
  /\ IF GlobalMouseMoveMonitor_isMonitoring
     THEN /\ drag' = Null
          /\ sliderActive' = slider_onStopCallback(sliderActive)
     ELSE UNCHANGED <<drag, sliderActive>>
  /\ out' = MouseEvent("up", TRUE, 0, 0,
                        IF Gesture = "pressed" THEN "released" ELSE Gesture, Null)
  /\ _lastRenderData' = Null
  /\ heap' = Collect(heap, Null, _buffers)
  /\ UNCHANGED <<configuration, theme, model, _options, _buffers, events, frame,
                 steps, lin, lout, isWindows, calls>>

\* a 'mouseup' anywhere: the monitor unhooks and calls the stop callback
mouseUp ==
  /\ IF GlobalMouseMoveMonitor_isMonitoring
     THEN /\ drag' = Null
          /\ sliderActive' = slider_onStopCallback(sliderActive)
     ELSE UNCHANGED <<drag, sliderActive>>
  /\ out' = MouseEvent("up", TRUE, 0, 0,
                        IF Gesture = "pressed" THEN "released" ELSE Gesture, Null)
  /\ UNCHANGED <<minimapVars, lin, lout, isWindows, calls>>

MouseInit ==
  /\ configuration = BaseConfiguration
  /\ theme = 0
  /\ model = Document(MaxLines)
  /\ _options = MinimapOptions(configuration)
  /\ _lastRenderData = Null
  /\ _buffers = Null
  /\ heap = [id \in ObjectIds |-> Null]
  /\ events = NoEvents
  /\ frame = Null
  /\ steps = 0
  /\ lin = Null
  /\ lout = Null
  /\ drag = Null
  /\ sliderActive = FALSE
  /\ isWindows \in BOOLEAN
  /\ out = Null
  /\ calls = Null

\* the minimap switched off
MouseConfigSet == {[BaseConfiguration EXCEPT !.renderMinimap = RenderMinimap_None]}

MouseNext ==
  \/ \E cfg \in MouseConfigSet : onConfigurationChanged(cfg)
  \/ \E from \in 2 .. MaxLines : onLinesDeleted(from, Len(model))
  \/ \E renderingCtx \in CtxSet : render(renderingCtx)
  \/ \E offsetY \in PosY : canvasMouseDown(offsetY)
  \/ \E posx \in PosX : sliderMouseDown(TRUE, posx, 1)
  \/ sliderMouseDown(FALSE, 0, 0)
  \/ \E posx \in MovePosX, posy \in PosY : sliderMouseMove(posx, posy)
  \/ mouseUp

SpecMouse == MouseInit /\ [][MouseNext]_vars

Moved == out # Null /\ out[1].event = "move"

\* C11: during a drag on Windows, a pointer move more than 140 away
\* horizontally from the press position requests the scrollTop of the layout
\* captured at the press, whatever the vertical delta.
C11_DragSnapBack ==
  (Moved /\ drag # Null /\ isWindows
   /\ AbsInt(out[1].posx - drag[1].initialMouseOrthogonalPosition) > 140) =>
    out[1].request =
      <<[kind |-> "scroll", value |-> Num(drag[1].initialSliderState.scrollTop)]>>

\* a snap-back to the left of the press, with a vertical delta that would
\* have scrolled elsewhere
C11_Witness ==
  /\ Moved /\ drag # Null /\ isWindows
  /\ out[1].posx - drag[1].initialMouseOrthogonalPosition < -140
  /\ out[1].posy # drag[1].initialMousePosition
  /\ drag[1].initialSliderState.scrollTop > 0
  /\ getDesiredScrollTopFromDelta(drag[1].initialSliderState,
                                  Num(out[1].posy - drag[1].initialMousePosition))
       # Num(drag[1].initialSliderState.scrollTop)
  /\ out[1].request # Null


Dragging == drag # Null

\* the step enters Dragging: a primary-button press on the slider, capturing
\* the pointer position and the layout of the last render pass
C12_Enters ==
  (~Dragging /\ Dragging') =>
    /\ out'[1].event = "sliderDown"
    /\ out'[1].leftButton
    /\ _lastRenderData # Null
    /\ drag' = <<[initialMousePosition |-> out'[1].posy,
                  initialMouseOrthogonalPosition |-> out'[1].posx,
                  initialSliderState |-> _lastRenderData[1].renderedLayout]>>
    /\ sliderActive'

\* the step leaves Dragging: a release
C12_Leaves ==
  /\ (Dragging /\ ~Dragging') => (out'[1].event = "up" /\ ~sliderActive')
  /\ (Dragging /\ out' # out /\ out'[1].event = "up") => ~Dragging'
  /\ (Dragging /\ Dragging') => drag' = drag

\* C12: the drag controller is Idle or Dragging; it enters Dragging only on a
\* primary-button press on the slider, capturing the last rendered layout
\* and the pointer's x and y, leaves it on the pointer's release, and the
\* slider is 'active' exactly while it is Dragging.
C12_DragStateMachine ==
  /\ [](sliderActive <=> Dragging)
  /\ [][C12_Enters /\ C12_Leaves]_vars

\* a drag released after a render pass replaced the layout it had captured
C12_Witness ==
  /\ out # Null
  /\ out[1].event = "up"
  /\ out[1].monitoring
  /\ ~Dragging
  /\ ~sliderActive
  /\ frame # Null
  /\ steps >= 2

\* C13: a pointer move writes a scroll offset only while Dragging, that is
\* between a primary-button press on a rendered slider and the next release;
\* after a release no move writes one until such a press starts a new drag.
C13_ReleaseEndsDrag ==
  (out # Null /\ out[1].request # Null /\ out[1].request[1].kind = "scroll") =>
    /\ out[1].event = "move"
    /\ out[1].gesture = "pressed"
    /\ out[1].monitoring

\* a pointer move after the release of a drag, writing nothing
C13_Witness ==
  /\ Moved
  /\ out[1].gesture = "released"
  /\ out[1].request = Null
  /\ _lastRenderData # Null
  /\ steps >= 1
  /\ ~sliderActive

\* C18: a click on the canvas requests the reveal of a line in
\* [1, lineCount], the line under the click by the last rendered layout
\* (startLineNumber + floor(pixelRatio * offsetY / minimapLineHeight)) or
\* lineCount when that is beyond the document's end; it requests nothing when
\* there is no render data or renderMinimap is None.
C18_Click ==
  (out' # out /\ out'[1].event = "canvasDown") =>
    IF _lastRenderData = Null \/ _options.renderMinimap = RenderMinimap_None
    THEN out'[1].request = Null
    ELSE LET under ==
               _lastRenderData[1].renderedLayout.startLineNumber[1]
                 + (_options.pixelRatio[1] * out'[1].posy)
                     \div getMinimapLineHeight(_options.renderMinimap)
         IN /\ out'[1].request # Null
            /\ out'[1].request[1].kind = "reveal"
            /\ Leq(Num(1), out'[1].request[1].value)
            /\ Leq(out'[1].request[1].value, Num(Len(model)))
            /\ out'[1].request[1].value
                 = Num(IF under > Len(model) THEN Len(model) ELSE under)

C18_ClickReveal == [][C18_Click]_vars

\* a click below the last line of a document that lost lines since the
\* render pass, revealing the last line
C18_Witness ==
  /\ out # Null /\ out[1].event = "canvasDown"
  /\ _lastRenderData # Null
  /\ out[1].request # Null
  /\ Len(model) < MaxLines
  /\ _lastRenderData[1].renderedLayout.startLineNumber[1] + 1 > Len(model) + 1
  /\ out[1].posy = 3
  /\ out[1].request[1].value = Num(Len(model))

\* the scroll offset that follows the vertical delta on the captured layout
FollowsDelta ==
  <<[kind |-> "scroll",
     value |-> getDesiredScrollTopFromDelta(
                 drag[1].initialSliderState,
                 Num(out[1].posy - drag[1].initialMousePosition))]>>

HorizontalDistance == AbsInt(out[1].posx - drag[1].initialMouseOrthogonalPosition)

\* the request of a move is a function of what the press captured and of the
\* position of the move
C29_Request ==
  (Moved /\ drag # Null) =>
    /\ out[1].request =
         IF isWindows /\ HorizontalDistance > 140
         THEN <<[kind |-> "scroll", value |-> Num(drag[1].initialSliderState.scrollTop)]>>
         ELSE FollowsDelta
    /\ (out[1].snapped /\ HorizontalDistance <= 140) => out[1].request = FollowsDelta

\* no step of a drag changes what the press captured
C29_Captured == (drag # Null /\ drag' # Null) => drag' = drag

\* C29: while dragging, the scroll offset a pointer move requests depends
\* only on the layout and the pointer position captured at the press and on
\* the position of the move, not on earlier moves nor on renders,
\* invalidations or configuration changes during the drag; after a
\* snap-back, a move within the horizontal threshold requests
\* getDesiredScrollTopFromDelta(currentY - initialY) on the captured layout.
C29_DragIsolation == []C29_Request /\ [][C29_Captured]_vars

\* a move within the threshold after a snap-back of the same drag, when the
\* last render pass left another layout than the captured one
C29_Witness ==
  /\ Moved /\ drag # Null /\ isWindows
  /\ out[1].snapped
  /\ HorizontalDistance <= 140
  /\ out[1].posy # drag[1].initialMousePosition
  /\ _lastRenderData # Null
  /\ _lastRenderData[1].renderedLayout.scrollTop # drag[1].initialSliderState.scrollTop
  /\ out[1].request = FollowsDelta
  /\ FollowsDelta[1].value # Num(drag[1].initialSliderState.scrollTop)

\* C30: on platforms other than Windows no horizontal displacement resets
\* the scroll offset, the move follows the vertical delta; on Windows a
\* horizontal displacement of 140 or less does not reset.
C30_ConditionalSnapBack ==
  (Moved /\ drag # Null) =>
    /\ ~isWindows => out[1].request = FollowsDelta
    /\ (isWindows /\ HorizontalDistance <= 140) => out[1].request = FollowsDelta

\* a move on Windows exactly 140 away from the press that scrolls away from
\* the captured offset
C30_Witness ==
  /\ Moved /\ drag # Null /\ isWindows
  /\ HorizontalDistance = 140
  /\ out[1].request = FollowsDelta
  /\ FollowsDelta[1].value # Num(drag[1].initialSliderState.scrollTop)

\* a step that delivers a pointer event changes nothing of the view part but
\* the drag, and a slider press, a move or a release requests a scroll
\* offset or nothing
C31_Pointer ==
  out' # out =>
    /\ UNCHANGED <<configuration, theme, model, _options, _lastRenderData,
                   _buffers, heap>>
    /\ out'[1].event \in {"sliderDown", "move", "up"} =>
         \/ out'[1].request = Null
         \/ out'[1].request[1].kind = "scroll"

\* C31: the press, move and release events of the slider only ever request
\* a scroll offset: they leave the options, the buffers, the index of the
\* buffer in use and the last render data with its row records as they are,
\* however they interleave with render passes.
C31_PointerEffects == [][C31_Pointer]_vars

\* a release after a drag that requested scroll offsets, with the frame and
\* the buffers of a render pass made during the drag still in place
C31_Witness ==
  /\ out # Null /\ out[1].event = "up" /\ out[1].gesture = "released"
  /\ out[1].snapped
  /\ drag = Null
  /\ _lastRenderData # Null
  /\ _buffers # Null
  /\ _buffers[1]._lastUsedBuffer = 0


(***************************************************************************)
(* MinimapOptions.equals and getMinimapLineHeight on pairs of options, and *)
(* the configuration-changed events of a minimap of two lines.  lin is     *)
(* <<[this, other]>> and lout is <<>> or the result of the call.           *)
(***************************************************************************)
\* the options of an editor per renderMinimap setting
OptionsSet ==
  {MinimapOptions([BaseConfiguration EXCEPT !.renderMinimap = renderMinimap]) :
     renderMinimap \in RenderMinimap_Small .. RenderMinimap_LargeBlocks}

\* the options that differ from this in exactly one field
OneFieldChanged(this) ==
  {[this EXCEPT !.renderMinimap = renderMinimap] :
     renderMinimap \in (RenderMinimap_None .. RenderMinimap_LargeBlocks)
                         \ {this.renderMinimap}}
  \cup {[this EXCEPT !.showSlider = "always"],
        [this EXCEPT !.pixelRatio = Add(@, Num(1))],
        [this EXCEPT !.lineHeight = @ + 1],
        [this EXCEPT !.minimapWidth = @ + 1],
        [this EXCEPT !.minimapHeight = @ + 1],
        [this EXCEPT !.canvasInnerWidth = @ + 1],
        [this EXCEPT !.canvasInnerHeight = @ + 1],
        [this EXCEPT !.canvasOuterWidth = Add(@, Num(1))],
        [this EXCEPT !.canvasOuterHeight = Add(@, Num(1))]}

OptionsPairs ==
  UNION {{[this |-> this, other |-> other] : other \in {this} \cup OneFieldChanged(this)} :
           this \in OptionsSet}

OptionsInit ==
  /\ configuration = BaseConfiguration
  /\ theme = 0
  /\ model = Document(2)
  /\ _options = MinimapOptions(configuration)
  /\ _lastRenderData = Null
  /\ _buffers = Null
  /\ heap = [id \in ObjectIds |-> Null]
  /\ events = NoEvents
  /\ frame = Null
  /\ steps = 0
  /\ lin \in {<<pair>> : pair \in OptionsPairs}
  /\ lout = Null
  /\ NoMouse
  /\ calls = Null

\* this.equals(other)
equals ==
  /\ lin # Null
  /\ lout = Null
  /\ lout' = <<[call |-> "equals",
                result |-> MinimapOptions_equals(lin[1].this, lin[1].other)]>>
  /\ UNCHANGED <<minimapVars, events, frame, steps, lin, mouseVars, calls>>

\* getMinimapLineHeight of the two renderMinimap settings
lineHeights ==
  /\ lin # Null
  /\ lout = Null
  /\ lout' = <<[call |-> "getMinimapLineHeight",
                result |-> getMinimapLineHeight(lin[1].this.renderMinimap),
                other |-> getMinimapLineHeight(lin[1].other.renderMinimap)]>>
  /\ UNCHANGED <<minimapVars, events, frame, steps, lin, mouseVars, calls>>

OptionsNext ==
  \/ equals
  \/ lineHeights
  \/ \E cfg \in ConfigSet : onConfigurationChanged(cfg)
  \/ \E renderingCtx \in CtxSet : render(renderingCtx)

SpecOptions == OptionsInit /\ [][OptionsNext]_vars

LineHeightsOf(a, b) ==
  /\ lin # Null /\ lout # Null
  /\ lout[1].call = "getMinimapLineHeight"
  /\ lin[1].this.renderMinimap = a
  /\ lin[1].other.renderMinimap = b

\* C21 as stated: each block category has a line height one pixel larger
\* than its glyph counterpart.
C21_AsStated ==
  /\ LineHeightsOf(RenderMinimap_SmallBlocks, RenderMinimap_Small) =>
       lout[1].result = lout[1].other + 1
  /\ LineHeightsOf(RenderMinimap_LargeBlocks, RenderMinimap_Large) =>
       lout[1].result = lout[1].other + 1

\* C21: the line height is one of four fixed values, one per renderMinimap
\* setting other than None; SmallBlocks is one pixel taller than Small and
\* LargeBlocks two pixels taller than Large.
C21_LinePitch ==
  /\ LineHeightsOf(RenderMinimap_SmallBlocks, RenderMinimap_Small) =>
       lout[1].result = lout[1].other + 1
  /\ LineHeightsOf(RenderMinimap_LargeBlocks, RenderMinimap_Large) =>
       lout[1].result = lout[1].other + 2
  /\ (lin # Null /\ lout # Null /\ lout[1].call = "getMinimapLineHeight") =>
       /\ lout[1].result \in {x1_CHAR_HEIGHT, x1_CHAR_HEIGHT + 1,
                              x2_CHAR_HEIGHT, x2_CHAR_HEIGHT + 2}
       /\ (lin[1].this.renderMinimap # lin[1].other.renderMinimap
           /\ lin[1].other.renderMinimap # RenderMinimap_None) =>
            lout[1].result # lout[1].other

\* the line heights of LargeBlocks and Large
C21_Witness ==
  /\ LineHeightsOf(RenderMinimap_LargeBlocks, RenderMinimap_Large)
  /\ lout[1].result > lout[1].other

\* a configuration-changed event: the only step that counts without a
\* render pass
C22_Event == steps' = steps + 1 /\ frame' = Null

C22_ShortCircuit ==
  C22_Event =>
    IF MinimapOptions(configuration') = _options
    THEN /\ UNCHANGED <<_options, _lastRenderData, _buffers, heap>>
         /\ events'.options = events.options
         /\ events.count = 0 => events'.only = Event("configurationChanged", 0, 0)
    ELSE /\ events'.options
         /\ _options' # _options

\* C22: a configuration-changed event whose fresh options equal the cached
\* ones in every field leaves the options, the buffers and the last render
\* data as they are and reports no change; equals() is true of two options
\* exactly when they agree in every field, so a difference in any single
\* field makes it false.
C22_OptionsEquality ==
  /\ []((lin # Null /\ lout # Null /\ lout[1].call = "equals") =>
          (lout[1].result <=> lin[1].this = lin[1].other))
  /\ [][C22_ShortCircuit]_vars

\* a render pass that copied both rows after an event that changed nothing,
\* next to options that differ in canvasOuterHeight alone
C22_Witness ==
  /\ FrameDrawn
  /\ frame[1].events.count = 1
  /\ frame[1].events.only = Event("configurationChanged", 0, 0)
  /\ frame[1].hadLast
  /\ Len(frame[1].needed) = 2
  /\ \A i \in 1 .. 2 : ~frame[1].needed[i]
  /\ lin # Null /\ lout # Null /\ lout[1].call = "equals"
  /\ ~lout[1].result
  /\ [lin[1].other EXCEPT !.canvasOuterHeight = lin[1].this.canvasOuterHeight]
       = lin[1].this

(***************************************************************************)
(* _renderUntouchedLines over a bounded set of previous frames and new     *)
(* ranges: a previous buffer of MaxRows rows whose bytes name their row,   *)
(* a record array as renders and edits leave it (each record -1 or the row *)
(* of an earlier line, rows increasing), and a background-filled target.   *)
(***************************************************************************)
MaxRows == 4

RECURSIVE Records(_, _)
Records(n, minimapLineHeight) ==
  IF n = 0 THEN {<<>>}
  ELSE {Append(lines, dy) :
          lines \in Records(n - 1, minimapLineHeight),
          dy \in {-1} \cup {row * minimapLineHeight : row \in Range0(MaxRows)}}

\* the rows of the records that are not -1 increase
Increasing(lines) ==
  \A i, j \in 1 .. Len(lines) :
    (i < j /\ lines[i] # -1 /\ lines[j] # -1) => lines[i] < lines[j]

UntouchedArgsSet ==
  {[target |-> [width |-> 1, height |-> MaxRows * minimapLineHeight,
                data |-> _createBackgroundFillData(
                           1, MaxRows * minimapLineHeight,
                           getColor(0, ColorId_DefaultBackground))],
    startLineNumber |-> startLineNumber,
    endLineNumber |-> startLineNumber + lineCount - 1,
    minimapLineHeight |-> minimapLineHeight,
    lastRenderData |-> <<[renderedLayout |-> Null, _imageData |-> 1,
                          _renderedLines |-> [rendLineNumberStart |-> lastStartLineNumber,
                                              lines |-> lines]]>>,
    last |-> [width |-> 1, height |-> MaxRows * minimapLineHeight,
              data |-> [offset \in Range0(MaxRows * minimapLineHeight * 4) |->
                          1 + offset \div 4]]] :
     minimapLineHeight \in {getMinimapLineHeight(RenderMinimap_Small)},
     startLineNumber \in 1 .. 2,
     lineCount \in 1 .. MaxRows,
     lastStartLineNumber \in 1 .. 2,
     lines \in {l \in UNION {Records(n, getMinimapLineHeight(RenderMinimap_Small)) :
                               n \in 0 .. MaxRows} : Increasing(l)}}

UntouchedInit ==
  /\ configuration = BaseConfiguration
  /\ theme = 0
  /\ model = Document(1)
  /\ _options = MinimapOptions(configuration)
  /\ _lastRenderData = Null
  /\ _buffers = Null
  /\ heap = [id \in ObjectIds |-> Null]
  /\ events = NoEvents
  /\ frame = Null
  /\ steps = 0
  /\ lin \in {<<a>> : a \in UntouchedArgsSet}
  /\ lout = Null
  /\ NoMouse
  /\ calls = Null

renderUntouchedLines ==
  /\ lin # Null
  /\ lout = Null
  /\ lout' = <<_renderUntouchedLines(
                 lin[1].target, lin[1].startLineNumber, lin[1].endLineNumber,
                 lin[1].minimapLineHeight, lin[1].lastRenderData, lin[1].last, FALSE)>>
  /\ UNCHANGED <<minimapVars, lin, mouseVars, calls>>

UntouchedNext == renderUntouchedLines

SpecUntouched == UntouchedInit /\ [][UntouchedNext]_vars

\* whether the previous frame has a valid row for the line
Reusable(a, lineNumber) ==
  LET lastLines == a.lastRenderData[1]._renderedLines
      lastLineIndex == lineNumber - lastLines.rendLineNumberStart
  IN /\ lastLineIndex >= 0
     /\ lastLineIndex < Len(lastLines.lines)
     /\ lastLines.lines[lastLineIndex + 1] # -1

\* the byte offsets of the line's row in the previous and in the new buffer
SourceOffset(a, lineNumber) ==
  LET lastLines == a.lastRenderData[1]._renderedLines
  IN lastLines.lines[lineNumber - lastLines.rendLineNumberStart + 1] * a.target.width * 4

DestOffset(a, lineNumber) ==
  (lineNumber - a.startLineNumber) * a.minimapLineHeight * a.target.width * 4

RowBytes(a) == a.minimapLineHeight * a.target.width * 4

\* one copy of minimapLineHeight pixel rows per reusable line, from
\* lineNumber to the end of the range
RECURSIVE CopyRows(_, _, _)
CopyRows(data, a, lineNumber) ==
  IF lineNumber > a.endLineNumber THEN data
  ELSE CopyRows(IF Reusable(a, lineNumber)
                THEN set(data,
                         subarray(a.last.data, SourceOffset(a, lineNumber),
                                  SourceOffset(a, lineNumber) + RowBytes(a)),
                         DestOffset(a, lineNumber))
                ELSE data,
                a, lineNumber + 1)

\* C27: for every previous record array and new range, the buffer after the
\* merged-copy pass of _renderUntouchedLines equals the buffer after one
\* copy of a row per reusable line; every row of every copy issued is the
\* row of a reusable line at its source and its destination offset (spans
\* are merged only when contiguous in both); and every reusable line is in
\* a copy that was performed (no span is left pending).
C27_MergedCopyEquivalence ==
  (lin # Null /\ lout # Null) =>
    LET a == lin[1]
        pass == lout[1]
        lineNumbers == a.startLineNumber .. a.endLineNumber
        Covers(copy, lineNumber) ==
          /\ copy.sourceStart <= SourceOffset(a, lineNumber)
          /\ SourceOffset(a, lineNumber) + RowBytes(a) <= copy.sourceEnd
          /\ DestOffset(a, lineNumber) - copy.destStart
               = SourceOffset(a, lineNumber) - copy.sourceStart
    IN /\ ~pass.threw
       /\ pass.targetData = CopyRows(a.target.data, a, a.startLineNumber)
       /\ \A i \in 1 .. Len(pass.copies) :
            LET copy == pass.copies[i]
            IN /\ (copy.sourceEnd - copy.sourceStart) % RowBytes(a) = 0
               /\ \A row \in Range0((copy.sourceEnd - copy.sourceStart) \div RowBytes(a)) :
                    \E lineNumber \in lineNumbers :
                      /\ Reusable(a, lineNumber)
                      /\ SourceOffset(a, lineNumber) = copy.sourceStart + row * RowBytes(a)
                      /\ DestOffset(a, lineNumber) = copy.destStart + row * RowBytes(a)
       /\ \A lineNumber \in lineNumbers :
            Reusable(a, lineNumber) =>
              \E i \in 1 .. Len(pass.copies) : Covers(pass.copies[i], lineNumber)
       /\ \A i \in 1 .. Len(pass.needed) :
            pass.needed[i] <=> ~Reusable(a, a.startLineNumber + i - 1)

\* a pass that merged two rows into one copy and then issued a second copy
\* whose source follows the first one's but whose destination does not
C27_Witness ==
  /\ lin # Null
  /\ lout # Null
  /\ Len(lout[1].copies) = 2
  /\ lout[1].copies[1].sourceEnd - lout[1].copies[1].sourceStart = 2 * RowBytes(lin[1])
  /\ lout[1].copies[2].sourceStart = lout[1].copies[1].sourceEnd
  /\ lout[1].copies[2].destStart
       # lout[1].copies[1].destStart + 2 * RowBytes(lin[1])

====
